---------------------------- MODULE Spec2Model ----------------------------
(***************************************************************************)
(* Model of the combat simulation of aoc15 (src/aoc15/src/main.rs): the    *)
(* Arena, the PathFinder, the Player decision procedure, the Simulation    *)
(* turn loop and the search for the elves' attack power.                   *)
(*                                                                         *)
(* Representation:                                                         *)
(*   Coordinate        record [y, x] (0-based, as in the source)           *)
(*   Option<T>         a set with at most one element: None = {},          *)
(*                     Some(v) = {v}                                       *)
(*   Vec<T>            a sequence                                          *)
(*   BTreeMap<Coordinate, Player>                                          *)
(*                     a function whose domain is the set of keys; its     *)
(*                     iteration order is the keys sorted by CoordLess     *)
(*   HashMap<Coordinate, Option<Link>>                                     *)
(*                     a function whose domain is the set of keys          *)
(*   BinaryHeap<Reverse<Link>>                                             *)
(*                     a bag of links; pop takes a link of minimum steps   *)
(*   grid text         a sequence of rows, each a sequence of 1-character  *)
(*                     strings                                             *)
(***************************************************************************)
EXTENDS Integers, Sequences, FiniteSets, Bags, TLC

\* ------------------------------------------------------------------ bounds

\* Largest number of units placed on a layout of the simulation.
MaxUnits == 3

\* Largest number of units placed on a layout when step is applied alone.
MaxStepUnits == 2

\* Largest number of other units placed on a layout when PathFinder::new is
\* run alone.
MaxBlockers == 2

\* Simulation::tick is not called once this many rounds are credited.
MaxRounds == 72

\* Largest number of units placed on a layout that find_elf_power is called
\* on.
MaxFindUnits == 2

\* Largest number of letters the steps of a graph are taken from.
MaxNodes == 3

\* Largest number of workers of a pool.
MaxWorkers == 2

\* Largest number of carts written on a layout of tracks.
MaxCarts == 3

\* Largest number of calls of SimulationIter::next that move carts.
MaxCartTicks == 12

\* Largest number of units of a text that is parsed alone.
MaxParseUnits == 258

\* Largest number of units placed on a grid cut in two by walls.
MaxApartUnits == 3

\* Largest number of units placed on a layout whose arena get_adjacent is
\* called on.
MaxAdjUnits == 1

\* Largest number of units placed on a layout of a text that is parsed, run
\* and shown.
MaxRenderUnits == 2

\* Largest number of units placed on a layout that two simulations are built
\* from.
MaxDetUnits == 3

\* Largest health below the starting health of an opponent handed to
\* Player::attack when it is called alone.
MaxAttackHealth == 9

\* ------------------------------------------------------- program constants

\* Player::new: health: 200
StartHealth == 200

\* Player::new: power: 3
StartPower == 3

\* Attack powers of the elves: the default of Player::new, and values that
\* Simulation::find_elf_power (4..200) hands to set_elf_power.
ElfPowers == {StartPower, 100}

\* ------------------------------------------------------------- Coordinate

Coordinate(y, x) == [y |-> y, x |-> x]

\* #[derive(Ord)] on struct Coordinate { y, x }: y first, then x.
CoordLess(a, b) == a.y < b.y \/ (a.y = b.y /\ a.x < b.x)

CoordLeq(a, b) == a = b \/ CoordLess(a, b)

\* The least coordinate of a non-empty set, in reading order.
MinCoord(S) == CHOOSE c \in S : \A d \in S : CoordLeq(c, d)

RECURSIVE SortCoords(_)
\* The coordinates of S in reading order: the iteration order of a BTreeMap.
SortCoords(S) ==
    IF S = {} THEN <<>>
    ELSE LET m == MinCoord(S) IN <<m>> \o SortCoords(S \ {m})

\* -------------------------------------------------------------- Option<T>

None == {}

Some(v) == {v}

Unwrap(o) == CHOOSE v \in o : TRUE

\* ------------------------------------------------------------------ Arena

\* enum Cell
Cell == {"Space", "Wall"}

\* self.grid[c.y as usize][c.x as usize]
CellAt(arena, c) == arena[c.y + 1][c.x + 1]

\* Arena::get_adjacent's guard: the call is fatal on the first row, on the
\* last row and beyond, on the first column, and beyond the last column.
get_adjacent_panics(arena, coord) ==
    \/ coord.y = 0
    \/ Len(arena) - 1 <= coord.y
    \/ coord.x = 0
    \/ coord.x >= Len(arena[coord.y + 1])

\* The four neighbours in the order of the vec!: Up, Down, Left, Right.
Neighbours(coord) ==
    << Coordinate(coord.y - 1, coord.x),
       Coordinate(coord.y + 1, coord.x),
       Coordinate(coord.y, coord.x - 1),
       Coordinate(coord.y, coord.x + 1) >>

\* The filter of Arena::get_adjacent indexes self.grid with every neighbour
\* in turn: an index past the end of a row or of the grid is fatal.
get_adjacent_index_panics(arena, coord) ==
    \E i \in 1..4 :
        \/ Neighbours(coord)[i].y + 1 > Len(arena)
        \/ Neighbours(coord)[i].x + 1 > Len(arena[Neighbours(coord)[i].y + 1])

\* get_adjacent without its filter: walls are returned as well.
get_adjacent_NoFilter(arena, coord) == Neighbours(coord)

\* Arena::get_adjacent past its guard: the neighbours whose cell is Space.
get_adjacent(arena, coord) ==
    SelectSeq(Neighbours(coord), LAMBDA c : CellAt(arena, c) = "Space")

\* The elements of a sequence.
Range(s) == {s[i] : i \in DOMAIN s}


\* ----------------------------------------------------- maps (BTreeMap, HashMap)

\* insert(k, v): the entry of k is set, replacing the one it had.
MapInsert(f, k, v) == [c \in DOMAIN f \cup {k} |-> IF c = k THEN v ELSE f[c]]

\* remove(k)
MapRemove(f, k) == [c \in DOMAIN f \ {k} |-> f[c]]

EmptyMap == [c \in {} |-> {}]

\* ----------------------------------------------------------------- Player

\* enum PlayerKind
PlayerKind == {"Elf", "Goblin"}

\* Player::new
NewPlayer(kind, id) ==
    [id |-> id, health |-> StartHealth, power |-> StartPower, kind |-> kind]

\* Player::is_opponent
is_opponent(self, other) ==
    \/ self.kind = "Elf" /\ other.kind = "Goblin"
    \/ self.kind = "Goblin" /\ other.kind = "Elf"

\* to_char giving the same letter for both factions.
to_char_AlwaysE(self) == "E"

\* Player::to_char
to_char(self) == IF self.kind = "Goblin" THEN "G" ELSE "E"

\* saturating_sub as the wrapping subtraction of u16.
saturating_sub_Wrapping(a, b) == (a - b) % 65536

\* u16::saturating_sub
saturating_sub(a, b) == IF a - b < 0 THEN 0 ELSE a - b

\* Player::attack past its guard: the opponent after the blow.
attack(self, opponent) ==
    [opponent EXCEPT !.health = saturating_sub(opponent.health, self.power)]

\* Player::attack's guard: striking a unit that is no opponent is fatal.
attack_panics(self, opponent) == ~is_opponent(self, opponent)

\* Player::attack past its guard: the bool it returns.
attack_kills(self, opponent) == attack(self, opponent).health = 0

\* ------------------------------------------------------------- PathFinder

\* struct Link
Link(steps, coord) == [steps |-> steps, coord |-> coord]

\* VisitNeighbour without the tie-break on the predecessor's coordinate.
VisitNeighbour_NoTieBreak(st, link, coord) ==
    IF coord \in DOMAIN st.map /\ st.map[coord] # None
       /\ ~(link.steps < Unwrap(st.map[coord]).steps)
    THEN st
    ELSE [map |-> MapInsert(st.map, coord, Some(link)),
          heap |-> st.heap (+) SetToBag({Link(link.steps + 1, coord)})]

\* The closure of for_each in PathFinder::new, for the popped link and one
\* neighbour coord that passed the filter: st = [map, heap] before, the
\* result after.  The map entry of a coordinate holds the link it was
\* reached from (the predecessor and the predecessor's step count).
VisitNeighbour(st, link, coord) ==
    LET next_link == Link(link.steps + 1, coord)
        inserted ==
            [map |-> MapInsert(st.map, coord, Some(link)),
             heap |-> st.heap (+) SetToBag({next_link})]
    IN  IF coord \in DOMAIN st.map /\ st.map[coord] # None
        THEN LET existing_link == Unwrap(st.map[coord])
             IN  IF \/ link.steps < existing_link.steps
                    \/ /\ link.steps = existing_link.steps
                       /\ CoordLess(link.coord, existing_link.coord)
                 THEN inserted
                 ELSE st
        ELSE inserted

RECURSIVE VisitAll(_, _, _)
\* for_each over the filtered neighbours, in their order.
VisitAll(st, link, coords) ==
    IF coords = <<>> THEN st
    ELSE VisitAll(VisitNeighbour(st, link, Head(coords)), link, Tail(coords))

\* OpenNeighbours without the test for players: paths run through units.
OpenNeighbours_ThroughUnits(link, current_pos, arena, players) ==
    SelectSeq(get_adjacent(arena, link.coord), LAMBDA c : c # current_pos)

\* The neighbours of the popped link that pass the filter of PathFinder::new:
\* not the source and not occupied by a player.
OpenNeighbours(link, current_pos, arena, players) ==
    SelectSeq(get_adjacent(arena, link.coord),
              LAMBDA c : c # current_pos /\ c \notin DOMAIN players)

\* One iteration of the while loop of PathFinder::new with link popped.
PopLink(st, link, current_pos, arena, players) ==
    VisitAll([map |-> st.map, heap |-> st.heap (-) SetToBag({link})],
             link, OpenNeighbours(link, current_pos, arena, players))

\* The links heap.pop() may return: Link::cmp compares steps alone, so any
\* link of minimum steps is a greatest element of the Reverse heap.
Poppable(heap) ==
    {l \in BagToSet(heap) : \A m \in BagToSet(heap) : l.steps <= m.steps}

\* The state of PathFinder::new before its loop.
PathStart(current_pos) ==
    [map |-> MapInsert(EmptyMap, current_pos, None),
     heap |-> SetToBag({Link(0, current_pos)})]

RECURSIVE PathLoop(_, _, _, _)
\* The while loop of PathFinder::new run to the end.  Which of several links
\* of equal steps is popped first is the heap's choice; PathSpec runs the
\* loop under every choice.
PathLoop(st, current_pos, arena, players) ==
    IF BagToSet(st.heap) = {} THEN st.map
    ELSE LET link == CHOOSE l \in Poppable(st.heap) : TRUE
         IN  PathLoop(PopLink(st, link, current_pos, arena, players),
                      current_pos, arena, players)

\* PathFinder::new: the finished map.
PathFinderNew(current_pos, arena, players) ==
    PathLoop(PathStart(current_pos), current_pos, arena, players)

\* get_first_step_toward_target that does not walk the chain back: the
\* unit goes to the target itself.
get_first_step_toward_target_Jump(map, target) == target

RECURSIVE get_first_step_toward_target(_, _)
\* PathFinder::get_first_step_toward_target
get_first_step_toward_target(map, target) ==
    IF target \in DOMAIN map /\ map[target] # None
    THEN LET link == Unwrap(map[target])
         IN  IF link.steps = 0 THEN target
             ELSE get_first_step_toward_target(map, link.coord)
    ELSE target

\* ------------------------------------------------------------ Player::step

\* enum PlayerAction.  A variant's unused fields hold None.
Stay == [type |-> "Stay", coord |-> None, target |-> None]

Move(coord) == [type |-> "Move", coord |-> Some(coord), target |-> None]

Attack(target) == [type |-> "Attack", coord |-> None, target |-> Some(target)]

MoveAndAttack(coord, target) ==
    [type |-> "MoveAndAttack", coord |-> Some(coord), target |-> Some(target)]

\* The least element of a non-empty set of pairs <<n, coord>>, ordered as the
\* tuples (u16, Coordinate) that min_by_key compares.
MinKey(S) ==
    CHOOSE k \in S : \A j \in S :
        k[1] < j[1] \/ (k[1] = j[1] /\ CoordLeq(k[2], j[2]))

\* get_opponent_target_from_attack_range choosing by coordinate alone.
get_opponent_target_ByCoord(self, arena, players, cell_in_range) ==
    MinCoord({c \in Range(get_adjacent(arena, cell_in_range)) :
                 c \in DOMAIN players /\ is_opponent(self, players[c])})

\* The filter of Player::get_opponent_target_from_attack_range: the
\* opponents next to cell_in_range.  Its min_by_key takes the one of least
\* (health, coordinate); the expect() is fatal when there is none.
OpponentsInRange(self, arena, players, cell_in_range) ==
    {c \in Range(get_adjacent(arena, cell_in_range)) :
        c \in DOMAIN players /\ is_opponent(self, players[c])}

\* Player::get_opponent_target_from_attack_range
get_opponent_target_from_attack_range(self, arena, players, cell_in_range) ==
    MinKey({<<players[c].health, c>> :
              c \in OpponentsInRange(self, arena, players, cell_in_range)})[2]

RECURSIVE FlatAdjacent(_, _)
\* flat_map(|coord| arena.get_adjacent(coord)) over a sequence of coordinates.
FlatAdjacent(arena, coords) ==
    IF coords = <<>> THEN <<>>
    ELSE get_adjacent(arena, Head(coords)) \o FlatAdjacent(arena, Tail(coords))

\* attack_coords that leaves out the source of the pathfinder (the one key
\* whose entry is None).
attack_coords_NoSource(self, map, arena, players) ==
    SelectSeq(
        FlatAdjacent(arena,
            SelectSeq(SortCoords(DOMAIN players),
                      LAMBDA c : is_opponent(self, players[c]))),
        LAMBDA a : a \notin DOMAIN players /\ a \in DOMAIN map /\ map[a] # None)

\* attack_coords of Player::step: the cells next to an opponent that hold no
\* player and are keys of the pathfinder's map, opponents taken in the order
\* of the BTreeMap.
attack_coords(self, map, arena, players) ==
    SelectSeq(
        FlatAdjacent(arena,
            SelectSeq(SortCoords(DOMAIN players),
                      LAMBDA c : is_opponent(self, players[c]))),
        LAMBDA a : a \notin DOMAIN players /\ a \in DOMAIN map)

\* ClosestTarget choosing by coordinate alone.
ClosestTarget_ByCoord(map, coords) ==
    MinCoord({a \in Range(coords) : a \in DOMAIN map})

\* The min_by_key of Player::step: the attack coordinate of least
\* (link.steps, coordinate); every candidate's entry is Some(link) here.
ClosestTarget(map, coords) ==
    MinKey({<<Unwrap(map[c]).steps, c>> :
              c \in {a \in Range(coords) : a \in DOMAIN map}})[2]

\* Player::step after its first statement: map is pathfinder.map.
StepWithMap(self, current_pos, arena, players, map) ==
    LET coords == attack_coords(self, map, arena, players)
    IN  IF Len(coords) = 0 THEN Stay
        ELSE IF current_pos \in Range(coords)
        THEN Attack(get_opponent_target_from_attack_range(
                        self, arena, players, current_pos))
        ELSE LET target == get_first_step_toward_target(
                               map, ClosestTarget(map, coords))
             IN  IF target \in Range(coords)
                 THEN MoveAndAttack(target,
                          get_opponent_target_from_attack_range(
                              self, arena, players, target))
                 ELSE Move(target)

\* Player::step
step(self, current_pos, arena, players) ==
    StepWithMap(self, current_pos, arena, players,
                PathFinderNew(current_pos, arena, players))

\* The coordinates Player::step hands to arena.get_adjacent, map being its
\* pathfinder.map: every key of the map (each is pushed on the heap and
\* popped by the loop of PathFinder::new), every opponent's coordinate (the
\* flat_map of step), and the cell get_opponent_target_from_attack_range is
\* called with, which is current_pos or the first step, both keys of the map.
get_adjacent_calls(self, arena, players, map) ==
    DOMAIN map \cup {c \in DOMAIN players : is_opponent(self, players[c])}

\* Player::step is fatal when one of its calls of get_adjacent is: at the
\* guard of get_adjacent, or at an index of its filter.
step_panics(self, arena, players, map) ==
    \E c \in get_adjacent_calls(self, arena, players, map) :
        \/ get_adjacent_panics(arena, c)
        \/ get_adjacent_index_panics(arena, c)

\* -------------------------------------------------------------- grid texts

\* The text of a grid of h rows and w columns whose outer ring and the cells
\* of walls are '#' and whose other cells are '.'.
Layout(h, w, walls) ==
    [r \in 1..h |-> [k \in 1..w |->
        IF r = 1 \/ r = h \/ k = 1 \/ k = w \/ Coordinate(r - 1, k - 1) \in walls
        THEN "#" ELSE "."]]

\* The coordinates of the '.' characters of a text.
OpenCells(text) ==
    {c \in [y : 0..Len(text) - 1, x : 0..Len(text[1]) - 1] :
        text[c.y + 1][c.x + 1] = "."}

\* The text with the letters of units ('E' or 'G') written at their cells.
PlaceUnits(text, units) ==
    [r \in 1..Len(text) |-> [k \in 1..Len(text[r]) |->
        IF Coordinate(r - 1, k - 1) \in DOMAIN units
        THEN units[Coordinate(r - 1, k - 1)] ELSE text[r][k]]]

\* The texts made of a layout and at least lo, at most hi units on its open
\* cells.
Texts(layouts, lo, hi) ==
    UNION {
        UNION { {PlaceUnits(l, u) : u \in [cells -> {"E", "G"}]} :
                cells \in {s \in SUBSET OpenCells(l) :
                             Cardinality(s) >= lo /\ Cardinality(s) <= hi} } :
        l \in layouts }

\* ---------------------------------------------------- Simulation::from_str

\* The number of values of type PlayerId = u8.
PlayerIdValues == 256

\* ParseByte taking a byte it does not know for a wall.
ParseByte_Lenient(acc, c, y, x) ==
    IF acc.err THEN acc
    ELSE IF c = "." THEN [acc EXCEPT !.row = Append(@, "Space")]
    ELSE IF c = "E" \/ c = "G" THEN
        [acc EXCEPT
            !.players = MapInsert(@, Coordinate(y, x),
                            NewPlayer(IF c = "E" THEN "Elf" ELSE "Goblin",
                                      acc.curr_id)),
            !.curr_id = (@ + 1) % PlayerIdValues,
            !.overflow = @ \/ acc.curr_id + 1 = PlayerIdValues,
            !.row = Append(@, "Space")]
    ELSE [acc EXCEPT !.row = Append(@, "Wall")]

\* The match on one byte c at (y, x): acc = [players, curr_id, overflow, row,
\* err].  curr_id is a u8: curr_id += 1 at 255 overflows, which a build
\* with overflow checks ends with a panic and a build without them wraps to
\* 0; overflow records that it happened.
ParseByte(acc, c, y, x) ==
    IF acc.err THEN acc
    ELSE IF c = "." THEN [acc EXCEPT !.row = Append(@, "Space")]
    ELSE IF c = "#" THEN [acc EXCEPT !.row = Append(@, "Wall")]
    ELSE IF c = "E" \/ c = "G" THEN
        [acc EXCEPT
            !.players = MapInsert(@, Coordinate(y, x),
                            NewPlayer(IF c = "E" THEN "Elf" ELSE "Goblin",
                                      acc.curr_id)),
            !.curr_id = (@ + 1) % PlayerIdValues,
            !.overflow = @ \/ acc.curr_id + 1 = PlayerIdValues,
            !.row = Append(@, "Space")]
    ELSE [acc EXCEPT !.err = TRUE]

RECURSIVE ParseLine(_, _, _, _)
\* The bytes of line y from column x (0-based) on.
ParseLine(acc, line, y, x) ==
    IF x >= Len(line) THEN acc
    ELSE ParseLine(ParseByte(acc, line[x + 1], y, x), line, y, x + 1)

RECURSIVE ParseLines(_, _, _)
\* The lines of the text from line y (0-based) on: acc = [players, curr_id,
\* overflow, grid, err].
ParseLines(acc, text, y) ==
    IF y >= Len(text) \/ acc.err THEN acc
    ELSE LET line == ParseLine([players |-> acc.players, curr_id |-> acc.curr_id,
                                overflow |-> acc.overflow,
                                row |-> <<>>, err |-> FALSE],
                               text[y + 1], y, 0)
         IN  ParseLines([players |-> line.players, curr_id |-> line.curr_id,
                         overflow |-> line.overflow,
                         grid |-> Append(acc.grid, line.row), err |-> line.err],
                        text, y + 1)

\* The whole text parsed.
ParseText(text) ==
    ParseLines([players |-> EmptyMap, curr_id |-> 0, overflow |-> FALSE,
                grid |-> <<>>, err |-> FALSE], text, 0)

\* Simulation::from_str in a build with overflow checks: curr_id += 1 has
\* panicked.
from_str_overflows(text) == ParseText(text).overflow

\* Simulation::from_str: Ok(Simulation) as Some(simulation), Err as None.
from_str(text) ==
    LET parsed == ParseText(text)
    IN  IF parsed.err THEN None
        ELSE Some([players |-> parsed.players, arena |-> parsed.grid, rounds |-> 0])

\* Simulation::set_elf_power
set_elf_power(s, power) ==
    [s EXCEPT !.players =
        [c \in DOMAIN s.players |->
            IF s.players[c].kind = "Elf"
            THEN [s.players[c] EXCEPT !.power = power]
            ELSE s.players[c]]]

\* Simulation::get_player_healths
get_player_healths(s) ==
    [i \in 1..Cardinality(DOMAIN s.players) |->
        s.players[SortCoords(DOMAIN s.players)[i]].health]

\* ------------------------------------------------------- Simulation state

VARIABLES
    sim,      \* struct Simulation: [players, arena, rounds]; the sim of the
              \* loop body in find_elf_power; [a, b], two simulations, when
              \* two are stepped side by side; aoc13's SimulationIter:
              \* [track, carts, error_found]; aoc07's WorkerPool:
              \* [workers, is_simple, time, processed, in_progress]
    pc,       \* "idle": no call is running; "tick": inside the closure loop
              \* of Simulation::tick; "returned": Simulation::run or
              \* find_elf_power has returned; "panicked": a panic! has ended
              \* the program; "path", "step", "attack": PathFinder::new,
              \* Player::step or Player::attack runs alone; "find": at the
              \* head of the loop of find_elf_power; "find_run": inside its
              \* call of run; "pair": two simulations inside run; "render",
              \* "adjacent", "parse": Display::fmt, Arena::get_adjacent or
              \* Simulation::from_str is about to run alone; "carts": between
              \* two calls of SimulationIter::next; "pool": inside the loop
              \* of WorkerPool::run_simulation
    order,    \* tick's Vec<PlayerId>, collected as the round starts
    idx,      \* the index in order (1-based) of the id the closure gets next
    log,      \* what the closure saw and did for each id of this round so
              \* far; in find_elf_power, the runs finished so far; the
              \* SimulationResults SimulationIter::next has returned; the
              \* steps the workers of the pool have been given
    result,   \* Option of the value returned: the u32 of Simulation::run, the
              \* Result<u32> of find_elf_power, [a, b] for two simulations,
              \* the Time of run_simulation
    path,     \* PathFinder::new run alone: [current_pos, arena, players, map, heap]
    call      \* the arguments and the return value of a function applied
              \* alone: [self, current_pos, arena, players, ret] for
              \* Player::step, [self, opponent, before, ret] for
              \* Player::attack; [input, power, starting_elves] for
              \* find_elf_power; [input] for a test's battle; [input, arena,
              \* coord, ret] for get_adjacent; [input, units, ret] for
              \* from_str; [before, crash_coords] for the last call of
              \* SimulationIter::next; [graph] for run_simulation

vars == <<sim, pc, order, idx, log, result, path, call>>

\* The value of the variables of a part of the model that is not running.
Idle == None

\* The factions present: the HashSet<&PlayerKind> of tick and of run.
Kinds(players) == {players[c].kind : c \in DOMAIN players}

\* PlayerIds taken in the order of the ids instead of the order of the keys.
PlayerIds_ById(players) ==
    [i \in 1..Cardinality(DOMAIN players) |->
        CHOOSE n \in {players[c].id : c \in DOMAIN players} :
            Cardinality({players[c].id : c \in DOMAIN players} \cap 0..(n - 1))
                = i - 1]

\* The BTreeMap's values in key order, mapped to their ids.
PlayerIds(players) ==
    [i \in 1..Cardinality(DOMAIN players) |->
        players[SortCoords(DOMAIN players)[i]].id]

\* self.players.values().find(|player| player.id == id).is_none()
IdMissing(players, id) == \A c \in DOMAIN players : players[c].id # id

\* OneFactionLeft with the test written < 1: a round goes on with one
\* faction.
OneFactionLeft_NoneLeft(players) == Cardinality(Kinds(players)) < 1

\* The closure's test that at most one faction is present.
OneFactionLeft(players) == Cardinality(Kinds(players)) <= 1

\* self.players.iter().find(|(_, player)| player.id == id): the first key in
\* order whose player has the id.
CoordOfId(players, id) == MinCoord({c \in DOMAIN players : players[c].id = id})

\* Strike without the removal of a unit whose health has reached 0.
Strike_KeepDead(players, player, target) ==
    MapInsert(players, target, attack(player, players[target]))

\* The Entry::Occupied arm of tick's Attack and MoveAndAttack: the opponent at
\* target is struck, and removed when attack returns true.
Strike(players, player, target) ==
    LET struck == attack(player, players[target])
    IN  IF struck.health = 0 THEN MapRemove(players, target)
        ELSE MapInsert(players, target, struck)

\* ApplyAction with MoveAndAttack applied as a Move: nobody is struck.
ApplyAction_MoveOnly(others, player, player_coord, action) ==
    IF action.type \in {"Move", "MoveAndAttack"}
    THEN MapInsert(others, Unwrap(action.coord), player)
    ELSE IF action.type = "Stay"
    THEN MapInsert(others, player_coord, player)
    ELSE MapInsert(
             LET struck == attack(player, others[Unwrap(action.target)])
             IN  IF struck.health = 0
                 THEN MapRemove(others, Unwrap(action.target))
                 ELSE MapInsert(others, Unwrap(action.target), struck),
             player_coord, player)

\* ApplyAction whose Stay arm does not put the removed player back.
ApplyAction_StayLost(others, player, player_coord, action) ==
    IF action.type = "Move"
    THEN MapInsert(others, Unwrap(action.coord), player)
    ELSE IF action.type = "Stay"
    THEN others
    ELSE IF action.type = "MoveAndAttack"
    THEN MapInsert(Strike(others, player, Unwrap(action.target)),
                   Unwrap(action.coord), player)
    ELSE MapInsert(Strike(others, player, Unwrap(action.target)),
                   player_coord, player)

\* The match of tick's closure: the mapping after the action of player, who
\* was removed from player_coord; others is the mapping without the player.
ApplyAction(others, player, player_coord, action) ==
    IF action.type = "Move"
    THEN MapInsert(others, Unwrap(action.coord), player)
    ELSE IF action.type = "Stay"
    THEN MapInsert(others, player_coord, player)
    ELSE IF action.type = "MoveAndAttack"
    THEN MapInsert(Strike(others, player, Unwrap(action.target)),
                   Unwrap(action.coord), player)
    ELSE MapInsert(Strike(others, player, Unwrap(action.target)),
                   player_coord, player)

\* The fatal branches of tick's closure for an action: no unit stands at the
\* target, or Player::attack refuses it.
ActionPanics(others, player, action) ==
    /\ action.type \in {"Attack", "MoveAndAttack"}
    /\ \/ Unwrap(action.target) \notin DOMAIN others
       \/ attack_panics(player, others[Unwrap(action.target)])

\* A record of the log: the id the closure got, whether its unit was still
\* in the mapping, how many factions were present, where the unit stood and
\* what it did.
LogEntry(id, alive, factions, from, action) ==
    [id |-> id, alive |-> alive, factions |-> factions, from |-> from,
     action |-> action]

\* The end of one call of the closure with value ret (the bool it returns),
\* the mapping being players after it: find(|&result| result) stops at the
\* first true, and the round is credited when no call returned true.
AfterClosure(players, ret) ==
    IF ret
    THEN /\ sim' = [sim EXCEPT !.players = players]
         /\ pc' = "idle"
         /\ idx' = idx
    ELSE IF idx = Len(order)
    THEN /\ sim' = [sim EXCEPT !.players = players, !.rounds = @ + 1]
         /\ pc' = "idle"
         /\ idx' = idx
    ELSE /\ sim' = [sim EXCEPT !.players = players]
         /\ pc' = "tick"
         /\ idx' = idx + 1

\* Simulation::tick is called (by run's loop, or directly as the tests do):
\* the ids are collected; with no unit the closure never runs and the round
\* is credited.
TickBegin ==
    /\ pc = "idle"
    /\ sim.rounds < MaxRounds
    /\ order' = PlayerIds(sim.players)
    /\ log' = <<>>
    /\ idx' = 1
    /\ IF PlayerIds(sim.players) = <<>>
       THEN /\ sim' = [sim EXCEPT !.rounds = @ + 1]
            /\ pc' = "idle"
       ELSE /\ sim' = sim
            /\ pc' = "tick"
    /\ UNCHANGED <<result, path, call>>

\* The closure for an id whose unit has died this round: skipped.
TurnSkip ==
    /\ pc = "tick"
    /\ IdMissing(sim.players, order[idx])
    /\ log' = Append(log, LogEntry(order[idx], FALSE,
                                   Cardinality(Kinds(sim.players)), None, None))
    /\ AfterClosure(sim.players, FALSE)
    /\ UNCHANGED <<order, result, path, call>>

\* The closure for a living unit that finds at most one faction: the round
\* exits early.
TurnExit ==
    /\ pc = "tick"
    /\ ~IdMissing(sim.players, order[idx])
    /\ OneFactionLeft(sim.players)
    /\ log' = Append(log, LogEntry(order[idx], TRUE,
                                   Cardinality(Kinds(sim.players)), None, None))
    /\ AfterClosure(sim.players, TRUE)
    /\ UNCHANGED <<order, result, path, call>>

\* PlayersAtTurn with the units that moved earlier in the round standing on
\* the cell they left as well: the mapping as the round saw them start.
PlayersAtTurn_RoundStart(players, player_coord) ==
    LET others == MapRemove(players, player_coord)
        left == {i \in 1..Len(log) :
                    /\ log[i].action # None
                    /\ Unwrap(log[i].action).coord # None
                    /\ Unwrap(log[i].from) \notin DOMAIN players
                    /\ ~IdMissing(others, log[i].id)}
    IN  [c \in DOMAIN others \cup {Unwrap(log[i].from) : i \in left} |->
            IF c \in DOMAIN others THEN others[c]
            ELSE others[CoordOfId(others,
                     log[CHOOSE i \in left : Unwrap(log[i].from) = c].id)]]

\* The &self.players that the closure hands to step: the mapping of this
\* moment, the acting unit removed from it.
PlayersAtTurn(players, player_coord) == MapRemove(players, player_coord)

\* The closure for a living unit with both factions present: the unit is
\* removed from the mapping, decides, and the action is applied.  (map and
\* action are bound as the elements of one-element sets, so that each is
\* computed once.)
TurnAct ==
    /\ pc = "tick"
    /\ ~IdMissing(sim.players, order[idx])
    /\ ~OneFactionLeft(sim.players)
    /\ LET player_coord == CoordOfId(sim.players, order[idx])
           player == sim.players[player_coord]
           others == MapRemove(sim.players, player_coord)
       IN  \E map \in {PathFinderNew(player_coord, sim.arena,
                           PlayersAtTurn(sim.players, player_coord))} :
           \E action \in {StepWithMap(player, player_coord, sim.arena,
                              PlayersAtTurn(sim.players, player_coord), map)} :
              /\ log' = Append(log, LogEntry(order[idx], TRUE,
                                   Cardinality(Kinds(sim.players)),
                                   Some(player_coord), Some(action)))
              /\ IF \/ step_panics(player, sim.arena, others, map)
                    \/ ActionPanics(others, player, action)
                 THEN /\ sim' = [sim EXCEPT !.players = others]
                      /\ pc' = "panicked"
                      /\ idx' = idx
                 ELSE AfterClosure(
                          ApplyAction(others, player, player_coord, action),
                          FALSE)
    /\ UNCHANGED <<order, result, path, call>>

\* The sum::<u16>() of the healths of the remaining units.
RECURSIVE SumSeq(_)
SumSeq(s) == IF s = <<>> THEN 0 ELSE Head(s) + SumSeq(Tail(s))

\* Score with the round that was cut short counted as well.
Score_CountsLastRound(s) == SumSeq(get_player_healths(s)) * (s.rounds + 1)

\* The value Simulation::run returns: the u16 sum of the healths, widened to
\* u32, times the rounds.  (A sum above 65535 needs more than 327 units; a
\* release build then wraps it, a debug build panics.)
Score(s) == (SumSeq(get_player_healths(s)) % 65536) * s.rounds

\* Simulation::run leaves its loop, at most one faction being present, and
\* returns the score.
RunReturn ==
    /\ pc = "idle"
    /\ Cardinality(Kinds(sim.players)) <= 1
    /\ result' = Some(Score(sim))
    /\ pc' = "returned"
    /\ UNCHANGED <<sim, order, idx, log, path, call>>

\* The layouts of the simulation: a 5x5 grid with an open 3x3 interior, and
\* one whose left and right columns are joined by the middle cell alone.
SimLayouts ==
    { Layout(5, 5, {}),
      Layout(5, 5, {Coordinate(1, 2), Coordinate(3, 2)}) }

\* The state after parsing a text, and after set_elf_power for a power other
\* than the default.
Init ==
    /\ \E text \in Texts(SimLayouts, 0, MaxUnits), power \in ElfPowers :
          LET parsed == Unwrap(from_str(text))
          IN  sim = IF power = StartPower THEN parsed
                    ELSE set_elf_power(parsed, power)
    /\ pc = "idle"
    /\ order = <<>>
    /\ idx = 1
    /\ log = <<>>
    /\ result = None
    /\ path = Idle
    /\ call = Idle

Next == TickBegin \/ TurnSkip \/ TurnExit \/ TurnAct \/ RunReturn

Spec == Init /\ [][Next]_vars

\* ------------------------------------------------ PathFinder::new run alone

\* The layouts PathFinder::new is run on: a 5x6 grid with an open interior
\* and a 5x5 grid with a wall in the middle.
PathLayouts ==
    { Layout(5, 6, {}),
      Layout(5, 5, {Coordinate(2, 2)}) }

\* PathFinder::new is entered, as Player::step enters it: the source is the
\* place of a unit of a parsed text, players the mapping without that unit.
PathInit ==
    /\ \E text \in Texts(PathLayouts, 1, 1 + MaxBlockers) :
          LET parsed == Unwrap(from_str(text))
          IN  \E src \in DOMAIN parsed.players :
                 path = [current_pos |-> src,
                         arena |-> parsed.arena,
                         players |-> MapRemove(parsed.players, src),
                         map |-> PathStart(src).map,
                         heap |-> PathStart(src).heap]
    /\ sim = Idle
    /\ pc = "path"
    /\ order = <<>>
    /\ idx = 1
    /\ log = <<>>
    /\ result = None
    /\ call = Idle

\* One iteration of the while loop: a link of minimum steps is popped and
\* its neighbours are visited.
PathPop ==
    /\ pc = "path"
    /\ \E link \in Poppable(path.heap) :
          LET st == PopLink([map |-> path.map, heap |-> path.heap], link,
                            path.current_pos, path.arena, path.players)
          IN  path' = [path EXCEPT !.map = st.map, !.heap = st.heap]
    /\ UNCHANGED <<sim, pc, order, idx, log, result, call>>

PathNext == PathPop

PathSpec == PathInit /\ [][PathNext]_vars

\* ---------------------------------------------------- Player::step applied alone

\* The layouts Player::step is applied on: the grid of test_player_step, a
\* 5x5 grid with a wall in the middle, and a 7x6 grid with two walls.
StepLayouts ==
    { Layout(5, 7, {}),
      Layout(5, 5, {Coordinate(2, 2)}),
      Layout(7, 6, {Coordinate(1, 1), Coordinate(3, 2)}) }

\* Player::step is called as test_player_step calls it: on a unit of a
\* parsed text, removed from the mapping.
StepInit ==
    /\ \E text \in Texts(StepLayouts, 1, MaxStepUnits) :
          LET parsed == Unwrap(from_str(text))
          IN  \E pos \in DOMAIN parsed.players :
                 call = [self |-> parsed.players[pos],
                         current_pos |-> pos,
                         arena |-> parsed.arena,
                         players |-> MapRemove(parsed.players, pos),
                         ret |-> None]
    /\ sim = Idle
    /\ pc = "step"
    /\ order = <<>>
    /\ idx = 1
    /\ log = <<>>
    /\ result = None
    /\ path = Idle

\* The call returns its PlayerAction.
StepCall ==
    /\ pc = "step"
    /\ call.ret = None
    /\ call' = [call EXCEPT !.ret =
                   Some(step(call.self, call.current_pos, call.arena, call.players))]
    /\ UNCHANGED <<sim, pc, order, idx, log, result, path>>

StepNext == StepCall

StepSpec == StepInit /\ [][StepNext]_vars

\* -------------------------------------------------- Player::attack applied alone

\* The attack powers of the program: the default, and values of the range of
\* find_elf_power.
AttackPowers == {StartPower, 4, 5, 199}

\* Player::attack is called as tick calls it: self and opponent are units of
\* either faction, the opponent's health is one a unit in the mapping has.
AttackInit ==
    /\ \E sk \in PlayerKind, ok \in PlayerKind, power \in AttackPowers,
          health \in 1..MaxAttackHealth \cup {StartHealth} :
          call = [self |-> [NewPlayer(sk, 0) EXCEPT !.power = power],
                  opponent |-> [NewPlayer(ok, 1) EXCEPT !.health = health],
                  before |-> [NewPlayer(ok, 1) EXCEPT !.health = health],
                  ret |-> None]
    /\ sim = Idle
    /\ pc = "attack"
    /\ order = <<>>
    /\ idx = 1
    /\ log = <<>>
    /\ result = None
    /\ path = Idle

\* The call panics on a unit of the own faction; otherwise it writes the
\* opponent's health and returns its bool.
AttackCall ==
    /\ pc = "attack"
    /\ call.ret = None
    /\ IF attack_panics(call.self, call.opponent)
       THEN /\ pc' = "panicked"
            /\ call' = call
       ELSE /\ pc' = pc
            /\ call' = [call EXCEPT
                           !.opponent = attack(call.self, call.opponent),
                           !.ret = Some(attack_kills(call.self, call.opponent))]
    /\ UNCHANGED <<sim, order, idx, log, result, path>>

AttackNext == AttackCall

AttackSpec == AttackInit /\ [][AttackNext]_vars

\* ------------------------------------------- Simulation::tick as an operator

\* The part of tick's closure after its two early returns, for the living
\* unit with the id, map being the map of the PathFinder its step builds:
\* [players, ret, panicked] are the mapping after the call, the bool the
\* closure returns, and whether a panic! ended it.
ActWithMap(players, arena, id, map) ==
    LET player_coord == CoordOfId(players, id)
        player == players[player_coord]
        others == MapRemove(players, player_coord)
        action == StepWithMap(player, player_coord, arena, others, map)
    IN  IF ActionPanics(others, player, action)
        THEN [players |-> others, ret |-> FALSE, panicked |-> TRUE]
        ELSE [players |-> ApplyAction(others, player, player_coord, action),
              ret |-> FALSE, panicked |-> FALSE]

\* One call of tick's closure.
Closure(players, arena, id) ==
    IF IdMissing(players, id)
    THEN [players |-> players, ret |-> FALSE, panicked |-> FALSE]
    ELSE IF OneFactionLeft(players)
    THEN [players |-> players, ret |-> TRUE, panicked |-> FALSE]
    ELSE ActWithMap(players, arena, id,
             PathFinderNew(CoordOfId(players, id), arena,
                           MapRemove(players, CoordOfId(players, id))))

RECURSIVE TickLoop(_, _, _, _)
\* into_iter().map(closure).find(|&result| result) from the i-th id on:
\* completed is the value of is_none().
TickLoop(players, arena, ids, i) ==
    IF i > Len(ids)
    THEN [players |-> players, completed |-> TRUE, panicked |-> FALSE]
    ELSE LET r == Closure(players, arena, ids[i])
         IN  IF r.panicked
             THEN [players |-> r.players, completed |-> FALSE, panicked |-> TRUE]
             ELSE IF r.ret
             THEN [players |-> r.players, completed |-> FALSE, panicked |-> FALSE]
             ELSE TickLoop(r.players, arena, ids, i + 1)

\* Simulation::tick: the simulation after the call, and whether it panicked.
tick(s) ==
    LET r == TickLoop(s.players, s.arena, PlayerIds(s.players), 1)
    IN  [sim |-> [s EXCEPT !.players = r.players,
                           !.rounds = IF r.completed THEN @ + 1 ELSE @],
         panicked |-> r.panicked]

\* ------------------------------------------------ Simulation::find_elf_power

\* for power in 4..200: the first power tried.
FirstElfPower == 4

\* for power in 4..200: the end of the range, which is not tried.
ElfPowerEnd == 200

\* Simulation::get_elf_counts: count() as u8.
get_elf_counts(s) ==
    Cardinality({c \in DOMAIN s.players : s.players[c].kind = "Elf"}) % 256

\* Result<u32>: Ok(value), and Err(message) of a Box<dyn Error> made from a
\* string.
Ok(value) == [ok |-> TRUE, value |-> value]

Err(message) == [ok |-> FALSE, value |-> message]

\* The error of from_str (its message goes on with the byte's number).
ParseError == Err("invalid character")

\* The error after the loop of find_elf_power.
ExhaustedError == Err("failed to find elf power after 200 iterations.")

\* The grid of test_attacks.
ExampleText ==
    << <<"#", "#", "#", "#", "#", "#", "#">>,
       <<"#", ".", "G", ".", ".", ".", "#">>,
       <<"#", ".", ".", ".", "E", "G", "#">>,
       <<"#", ".", "#", ".", "#", "G", "#">>,
       <<"#", ".", ".", "G", "#", "E", "#">>,
       <<"#", ".", ".", ".", ".", ".", "#">>,
       <<"#", "#", "#", "#", "#", "#", "#">> >>

\* A grid on which the elf dies at every power of the range.
CrowdedText ==
    << <<"#", "#", "#", "#", "#", "#">>,
       <<"#", "G", "G", "G", "G", "#">>,
       <<"#", "G", "E", "G", "G", "#">>,
       <<"#", "G", "G", "G", "G", "#">>,
       <<"#", "#", "#", "#", "#", "#">> >>

\* The text with the character at row r, column k (1-based) replaced.
ReplaceChar(text, r, k, ch) == [text EXCEPT ![r][k] = ch]

\* Texts with one character that from_str rejects, anywhere in the text.
BadTexts ==
    {ReplaceChar(ExampleText, r, k, ch) :
        r \in 1..Len(ExampleText), k \in 1..Len(ExampleText[1]),
        ch \in {"x", " "}}

\* The layout of the small texts find_elf_power is called on.
FindLayouts == { Layout(5, 5, {}) }

\* The inputs of find_elf_power.
FindTexts ==
    Texts(FindLayouts, 1, MaxFindUnits)
        \cup {ExampleText, CrowdedText} \cup BadTexts

\* FreshSim with the text parsed once, before the loop: a later candidate
\* goes on from the simulation the one before has left.
FreshSim_Reused(input, power) ==
    IF log = <<>> THEN set_elf_power(Unwrap(from_str(input)), power)
    ELSE set_elf_power(log[Len(log)].end, power)

\* let mut sim = input.parse::<Simulation>()?; sim.set_elf_power(power); for
\* an input that parses.
FreshSim(input, power) == set_elf_power(Unwrap(from_str(input)), power)

\* Simulation::find_elf_power(input) is entered: the loop starts at 4.
FindInit ==
    /\ \E text \in FindTexts :
          call = [input |-> text, power |-> FirstElfPower, starting_elves |-> 0]
    /\ sim = Idle
    /\ pc = "find"
    /\ order = <<>>
    /\ idx = 1
    /\ log = <<>>
    /\ result = None
    /\ path = Idle

\* The head of the loop body: input.parse::<Simulation>()?, set_elf_power,
\* get_elf_counts.  The ? returns the error of from_str.
FindParse ==
    /\ pc = "find"
    /\ call.power < ElfPowerEnd
    /\ IF from_str(call.input) = None
       THEN /\ result' = Some(ParseError)
            /\ pc' = "returned"
            /\ UNCHANGED <<sim, call>>
       ELSE LET fresh == FreshSim(call.input, call.power)
            IN  /\ sim' = fresh
                /\ call' = [call EXCEPT !.starting_elves = get_elf_counts(fresh)]
                /\ pc' = "find_run"
                /\ UNCHANGED result
    /\ UNCHANGED <<order, idx, log, path>>

\* One iteration of the loop of sim.run().
FindTick ==
    /\ pc = "find_run"
    /\ Cardinality(Kinds(sim.players)) > 1
    /\ sim.rounds < MaxRounds
    /\ sim' = tick(sim).sim
    /\ pc' = IF tick(sim).panicked THEN "panicked" ELSE pc
    /\ UNCHANGED <<order, idx, log, result, path, call>>

\* sim.run() returns and the elves are counted again: the score is returned,
\* or the loop goes on with the next power.  log keeps the runs made.
FindRunReturns ==
    /\ pc = "find_run"
    /\ Cardinality(Kinds(sim.players)) <= 1
    /\ log' = Append(log, [power |-> call.power, end |-> sim,
                           score |-> Score(sim)])
    /\ IF call.starting_elves = get_elf_counts(sim)
       THEN /\ result' = Some(Ok(Score(sim)))
            /\ pc' = "returned"
            /\ call' = call
       ELSE /\ result' = result
            /\ pc' = "find"
            /\ call' = [call EXCEPT !.power = @ + 1]
    /\ UNCHANGED <<sim, order, idx, path>>

\* The range is used up: the error after the loop is returned.
FindExhausted ==
    /\ pc = "find"
    /\ call.power >= ElfPowerEnd
    /\ result' = Some(ExhaustedError)
    /\ pc' = "returned"
    /\ UNCHANGED <<sim, order, idx, log, path, call>>

FindNext == FindParse \/ FindTick \/ FindRunReturns \/ FindExhausted

FindSpec == FindInit /\ [][FindNext]_vars

\* ------------------------------------------------------- the tests' battles

\* The grids of test_attacks and of test_run_simulation_1.
RunTexts ==
    { ExampleText,
      << <<"#", "#", "#", "#", "#", "#", "#">>,
         <<"#", "G", ".", ".", "#", "E", "#">>,
         <<"#", "E", "#", "E", ".", "E", "#">>,
         <<"#", "G", ".", "#", "#", ".", "#">>,
         <<"#", ".", ".", ".", "#", "E", "#">>,
         <<"#", ".", ".", ".", "E", ".", "#">>,
         <<"#", "#", "#", "#", "#", "#", "#">> >> }

\* The state of the tests after let mut sim = input.parse::<Simulation>()?;
\* call keeps the text.
ExampleInit ==
    /\ \E text \in RunTexts :
          /\ call = [input |-> text]
          /\ sim = Unwrap(from_str(text))
    /\ pc = "idle"
    /\ order = <<>>
    /\ idx = 1
    /\ log = <<>>
    /\ result = None
    /\ path = Idle

\* The tests call tick and run as Spec does.
ExampleSpec == ExampleInit /\ [][Next]_vars

\* ------------------------------------------------ two simulations side by side

RECURSIVE PathLoopAll(_, _, _, _)
\* The maps the while loop of PathFinder::new can end with, over every order
\* in which the heap may pop links of equal steps.
PathLoopAll(st, current_pos, arena, players) ==
    IF BagToSet(st.heap) = {} THEN {st.map}
    ELSE UNION { PathLoopAll(PopLink(st, link, current_pos, arena, players),
                             current_pos, arena, players) :
                 link \in Poppable(st.heap) }

\* One call of tick's closure, for every map its PathFinder may hold.
ClosureAll(players, arena, id) ==
    IF IdMissing(players, id) \/ OneFactionLeft(players)
    THEN {Closure(players, arena, id)}
    ELSE {ActWithMap(players, arena, id, map) :
            map \in PathLoopAll(PathStart(CoordOfId(players, id)),
                                CoordOfId(players, id), arena,
                                MapRemove(players, CoordOfId(players, id)))}

RECURSIVE TickLoopAll(_, _, _, _)
\* TickLoop for every outcome of the closure's calls.
TickLoopAll(players, arena, ids, i) ==
    IF i > Len(ids)
    THEN {[players |-> players, completed |-> TRUE, panicked |-> FALSE]}
    ELSE UNION {
           IF r.panicked
           THEN {[players |-> r.players, completed |-> FALSE, panicked |-> TRUE]}
           ELSE IF r.ret
           THEN {[players |-> r.players, completed |-> FALSE, panicked |-> FALSE]}
           ELSE TickLoopAll(r.players, arena, ids, i + 1) :
           r \in ClosureAll(players, arena, ids[i]) }

\* Simulation::tick for every outcome: the simulations a call may leave.
TickAll(s) ==
    {[sim |-> [s EXCEPT !.players = r.players,
                        !.rounds = IF r.completed THEN @ + 1 ELSE @],
      panicked |-> r.panicked] :
        r \in TickLoopAll(s.players, s.arena, PlayerIds(s.players), 1)}

\* The layout of the texts two simulations are built from.
DetLayouts == { Layout(4, 5, {}) }

\* Two simulations are built from the same text and the same elf power.
DetInit ==
    /\ \E text \in Texts(DetLayouts, 2, MaxDetUnits), power \in ElfPowers :
          LET parsed == Unwrap(from_str(text))
              built == IF power = StartPower THEN parsed
                       ELSE set_elf_power(parsed, power)
          IN  sim = [a |-> built, b |-> built]
    /\ pc = "pair"
    /\ order = <<>>
    /\ idx = 1
    /\ log = <<>>
    /\ result = None
    /\ path = Idle
    /\ call = Idle

\* The two simulations make one tick each, as the loop of run does; a
\* simulation with at most one faction is out of its loop and stays as it is.
DetTick ==
    /\ pc = "pair"
    /\ Cardinality(Kinds(sim.a.players)) > 1 \/ Cardinality(Kinds(sim.b.players)) > 1
    /\ sim.a.rounds < MaxRounds /\ sim.b.rounds < MaxRounds
    /\ \E ra \in (IF Cardinality(Kinds(sim.a.players)) > 1 THEN TickAll(sim.a)
                  ELSE {[sim |-> sim.a, panicked |-> FALSE]}),
          rb \in (IF Cardinality(Kinds(sim.b.players)) > 1 THEN TickAll(sim.b)
                  ELSE {[sim |-> sim.b, panicked |-> FALSE]}) :
          /\ sim' = [a |-> ra.sim, b |-> rb.sim]
          /\ pc' = IF ra.panicked \/ rb.panicked THEN "panicked" ELSE pc
    /\ UNCHANGED <<order, idx, log, result, path, call>>

\* Both calls of run return their scores.
DetReturn ==
    /\ pc = "pair"
    /\ Cardinality(Kinds(sim.a.players)) <= 1
    /\ Cardinality(Kinds(sim.b.players)) <= 1
    /\ result' = Some([a |-> Score(sim.a), b |-> Score(sim.b)])
    /\ pc' = "returned"
    /\ UNCHANGED <<sim, order, idx, log, path, call>>

DetNext == DetTick \/ DetReturn

DetSpec == DetInit /\ [][DetNext]_vars

\* ------------------------------------------------- Display for Simulation

\* Display::fmt: one line for each row of the grid; a cell shows the letter
\* of the player standing on it, or else '.' for Space and '#' for Wall.
fmt(s) ==
    [r \in 1..Len(s.arena) |-> [k \in 1..Len(s.arena[r]) |->
        IF Coordinate(r - 1, k - 1) \in DOMAIN s.players
        THEN to_char(s.players[Coordinate(r - 1, k - 1)])
        ELSE IF s.arena[r][k] = "Space" THEN "." ELSE "#"]]

\* The layouts of the texts that are parsed, run and shown.
RenderLayouts ==
    { Layout(4, 5, {}),
      Layout(5, 5, {Coordinate(2, 2)}) }

\* A text is parsed, as test_ticks does: call keeps the text, what format!
\* gave last (shown) and what parsing that gave (again).
RenderInit ==
    /\ \E text \in Texts(RenderLayouts, 0, MaxRenderUnits) :
          /\ call = [input |-> text, shown |-> None, again |-> None]
          /\ sim = Unwrap(from_str(text))
    /\ pc = "render"
    /\ order = <<>>
    /\ idx = 1
    /\ log = <<>>
    /\ result = None
    /\ path = Idle

\* sim.tick(), whatever units are left: a tick over no unit completes its
\* round, a tick with one faction left ends at its first unit and leaves the
\* simulation as it is. log keeps the round counter after each tick made; at
\* most MaxRounds ticks are made.
RenderTick ==
    /\ pc = "render"
    /\ Len(log) < MaxRounds
    /\ sim' = tick(sim).sim
    /\ pc' = IF tick(sim).panicked THEN "panicked" ELSE pc
    /\ log' = Append(log, tick(sim).sim.rounds)
    /\ call' = [call EXCEPT !.shown = None, !.again = None]
    /\ UNCHANGED <<order, idx, result, path>>

\* format!("{}", sim), and the text it gave parsed again.
RenderFmt ==
    /\ pc = "render"
    /\ call.shown = None
    /\ call' = [call EXCEPT !.shown = Some(fmt(sim)),
                            !.again = Some(from_str(fmt(sim)))]
    /\ UNCHANGED <<sim, pc, order, idx, log, result, path>>

RenderNext == RenderTick \/ RenderFmt

RenderSpec == RenderInit /\ [][RenderNext]_vars

\* ------------------------------------------------ Arena::get_adjacent called alone

\* The text of a grid of h rows and w columns without a wall.
OpenLayout(h, w) == [r \in 1..h |-> [k \in 1..w |-> "."]]

\* The layouts of the arenas get_adjacent is called on: two with walls all
\* around, one without a wall.
AdjLayouts ==
    { Layout(4, 5, {}),
      Layout(5, 5, {Coordinate(2, 2)}),
      OpenLayout(4, 4) }

\* get_adjacent is called on the arena of a parsed text with a coordinate of
\* the grid; call keeps the text.
AdjInit ==
    /\ \E text \in Texts(AdjLayouts, 0, MaxAdjUnits) :
          \E y \in 0..Len(text) - 1, x \in 0..Len(text[1]) - 1 :
             call = [input |-> text,
                     arena |-> Unwrap(from_str(text)).arena,
                     coord |-> Coordinate(y, x),
                     ret |-> None]
    /\ sim = Idle
    /\ pc = "adjacent"
    /\ order = <<>>
    /\ idx = 1
    /\ log = <<>>
    /\ result = None
    /\ path = Idle

\* The call panics at its guard or at an index, or returns its Vec.
AdjCall ==
    /\ pc = "adjacent"
    /\ call.ret = None
    /\ IF get_adjacent_panics(call.arena, call.coord)
       THEN /\ pc' = "panicked"
            /\ call' = call
       ELSE IF get_adjacent_index_panics(call.arena, call.coord)
       THEN /\ pc' = "panicked"
            /\ call' = call
       ELSE /\ pc' = pc
            /\ call' = [call EXCEPT
                           !.ret = Some(get_adjacent(call.arena, call.coord))]
    /\ UNCHANGED <<sim, order, idx, log, result, path>>

AdjNext == AdjCall

AdjSpec == AdjInit /\ [][AdjNext]_vars

\* ------------------------------------------- run on a grid cut in two by walls

\* A 5x5 grid whose middle column is Wall: the units of the left column
\* cannot reach those of the right column.
ApartLayouts == { Layout(5, 5, {Coordinate(1, 2), Coordinate(2, 2),
                                Coordinate(3, 2)}) }

\* The state after parsing a text of such a grid, and after set_elf_power
\* for a power other than the default.
ApartInit ==
    /\ \E text \in Texts(ApartLayouts, 1, MaxApartUnits), power \in ElfPowers :
          LET parsed == Unwrap(from_str(text))
          IN  sim = IF power = StartPower THEN parsed
                    ELSE set_elf_power(parsed, power)
    /\ pc = "idle"
    /\ order = <<>>
    /\ idx = 1
    /\ log = <<>>
    /\ result = None
    /\ path = Idle
    /\ call = Idle

\* run's loop: tick is called while more than one faction is present.
RunTick ==
    /\ Cardinality(Kinds(sim.players)) > 1
    /\ TickBegin

\* Simulation::run and nothing else: the tick of its loop, the turns of the
\* tick, and its return.
RunNext == RunTick \/ TurnSkip \/ TurnExit \/ TurnAct \/ RunReturn

\* The conditions under which the closure of tick reaches player.step: the
\* guard of TurnAct, which always adds to log.
TurnActGuard ==
    /\ pc = "tick"
    /\ ~IdMissing(sim.players, order[idx])
    /\ ~OneFactionLeft(sim.players)

\* run is sequential code that nothing suspends: a step of it that can be
\* taken is taken.  That is weak fairness of each of its steps; for TurnAct
\* it is written out, with TurnActGuard for ENABLED <<TurnAct>>_vars.
ApartSpec ==
    /\ ApartInit
    /\ [][RunNext]_vars
    /\ WF_vars(RunTick)
    /\ WF_vars(TurnSkip)
    /\ WF_vars(TurnExit)
    /\ WF_vars(RunReturn)
    /\ ([]<>(~TurnActGuard) \/ []<><<TurnAct>>_vars)

\* --------------------------------------------- Simulation::from_str run alone

\* The number of cells between the walls of a row of a crowded text.
CrowdWidth == 16

\* A walled text with n units: the rows between the walls are filled from
\* the top left in reading order, elves and goblins in turn.
CrowdText(n) ==
    LET rows == IF n = 0 THEN 1 ELSE (n + CrowdWidth - 1) \div CrowdWidth
    IN  [r \in 1..rows + 2 |-> [k \in 1..CrowdWidth + 2 |->
            IF r = 1 \/ r = rows + 2 \/ k = 1 \/ k = CrowdWidth + 2 THEN "#"
            ELSE IF (r - 2) * CrowdWidth + (k - 2) >= n THEN "."
            ELSE IF ((r - 2) * CrowdWidth + (k - 2)) % 2 = 0 THEN "E"
            ELSE "G"]]

\* from_str is called with a text of up to MaxParseUnits units.
ParseInit ==
    /\ \E n \in 0..MaxParseUnits :
          call = [input |-> CrowdText(n), units |-> n, ret |-> None]
    /\ sim = Idle
    /\ pc = "parse"
    /\ order = <<>>
    /\ idx = 1
    /\ log = <<>>
    /\ result = None
    /\ path = Idle

\* from_str returns; where curr_id += 1 overflows, a build with overflow
\* checks has panicked instead, and a build without them returns the
\* simulation with the ids that wrapped.
ParseCall ==
    /\ pc = "parse"
    /\ call.ret = None
    /\ \/ /\ from_str_overflows(call.input)
          /\ pc' = "panicked"
          /\ call' = call
       \/ /\ pc' = pc
          /\ call' = [call EXCEPT !.ret = Some(from_str(call.input))]
    /\ UNCHANGED <<sim, order, idx, log, result, path>>

ParseNext == ParseCall

ParseSpec == ParseInit /\ [][ParseNext]_vars

\* ======================================================================
\* aoc13: carts on tracks (src/aoc13/src/main.rs)
\* ======================================================================

\* fn get_clockwise of Add<u32> for Direction
get_clockwise(direction) ==
    CASE direction = "Up" -> "Right"
      [] direction = "Right" -> "Down"
      [] direction = "Down" -> "Left"
      [] direction = "Left" -> "Up"

\* fn get_counter_clockwise of Sub<u32> for Direction
get_counter_clockwise(direction) ==
    CASE direction = "Up" -> "Left"
      [] direction = "Right" -> "Up"
      [] direction = "Down" -> "Right"
      [] direction = "Left" -> "Down"

RECURSIVE DirectionAddLoop(_, _)
\* The for loop of add: k quarter turns clockwise.
DirectionAddLoop(curr, k) ==
    IF k = 0 THEN curr ELSE DirectionAddLoop(get_clockwise(curr), k - 1)

\* Add<u32> for Direction
DirectionAdd(direction, n) == DirectionAddLoop(direction, n % 4)

RECURSIVE DirectionSubLoop(_, _)
\* The for loop of sub: k quarter turns counter-clockwise.
DirectionSubLoop(curr, k) ==
    IF k = 0 THEN curr ELSE DirectionSubLoop(get_counter_clockwise(curr), k - 1)

\* Sub<u32> for Direction
DirectionSub(direction, n) == DirectionSubLoop(direction, n % 4)

\* struct Cart
Cart(direction, turns) == [direction |-> direction, turns |-> turns]

\* Cart::from_char: Some(cart), or None for the Err of another byte.
Cart_from_char(c) ==
    IF c = "^" THEN Some(Cart("Up", 0))
    ELSE IF c = "v" THEN Some(Cart("Down", 0))
    ELSE IF c = ">" THEN Some(Cart("Right", 0))
    ELSE IF c = "<" THEN Some(Cart("Left", 0))
    ELSE None

\* Cart::turn_on_junction, with the new direction stored as
\* update_from_track stores it: left, straight, right, in turn.
turn_on_junction(cart) ==
    LET turns == (cart.turns + 1) % 3
    IN  Cart(IF turns = 0 THEN DirectionAdd(cart.direction, 1)
             ELSE IF turns = 1 THEN DirectionSub(cart.direction, 1)
             ELSE cart.direction,
             turns)

\* Cart::update_from_track: [err, cart]; err is the Err of track_error.
update_from_track(cart, new_track) ==
    LET d == cart.direction
        ok(direction) == [err |-> FALSE, cart |-> Cart(direction, cart.turns)]
        bad == [err |-> TRUE, cart |-> cart]
    IN  IF new_track = "Empty" THEN bad
        ELSE IF new_track = "Junction"
        THEN [err |-> FALSE, cart |-> turn_on_junction(cart)]
        ELSE IF new_track = "Horizontal"
        THEN (IF d \in {"Up", "Down"} THEN bad ELSE ok(d))
        ELSE IF new_track = "Vertical"
        THEN (IF d \in {"Left", "Right"} THEN bad ELSE ok(d))
        ELSE IF new_track = "CurveForward"
        THEN (IF d \in {"Up", "Down"} THEN ok(DirectionAdd(d, 1))
              ELSE ok(DirectionSub(d, 1)))
        ELSE (IF d \in {"Up", "Down"} THEN ok(DirectionSub(d, 1))
              ELSE ok(DirectionAdd(d, 1)))

\* Coordinate::update_from_cart_direction.  x and y are u32: y -= 1 or
\* x -= 1 at 0 gives -1 here, which stands for the underflow (a panic, or
\* the wrapped value 4294967295 that no track has an index for).
update_from_cart_direction(coord, direction) ==
    CASE direction = "Up" -> Coordinate(coord.y - 1, coord.x)
      [] direction = "Down" -> Coordinate(coord.y + 1, coord.x)
      [] direction = "Left" -> Coordinate(coord.y, coord.x - 1)
      [] direction = "Right" -> Coordinate(coord.y, coord.x + 1)

\* self.track[coord.y as usize][coord.x as usize] is fatal: the subtraction
\* has underflowed, or the index is past the rows or past the end of the row.
track_index_panics(track, coord) ==
    \/ coord.y < 0
    \/ coord.x < 0
    \/ coord.y + 1 > Len(track)
    \/ coord.x + 1 > Len(track[coord.y + 1])

\* The match of Simulation::from_str on one byte: the Track of the cell
\* (None for the Err of Cart::from_char).
CartParseTrack(c) ==
    IF c = "+" THEN Some("Junction")
    ELSE IF c = "|" THEN Some("Vertical")
    ELSE IF c = "-" THEN Some("Horizontal")
    ELSE IF c = "/" THEN Some("CurveForward")
    ELSE IF c = "\\" THEN Some("CurveBackward")
    ELSE IF c = " " THEN Some("Empty")
    ELSE IF Cart_from_char(c) = None THEN None
    ELSE IF Unwrap(Cart_from_char(c)).direction \in {"Up", "Down"}
    THEN Some("Vertical")
    ELSE Some("Horizontal")

\* The bytes of a text that are carts.
CartCells(text) ==
    {c \in UNION {{Coordinate(r - 1, k - 1) : k \in 1..Len(text[r])} :
                     r \in 1..Len(text)} :
        text[c.y + 1][c.x + 1] \in {"^", "v", ">", "<"}}

\* Simulation::from_str of aoc13 followed by into_iter: Some(SimulationIter),
\* or None for an Err.
CartsFromStr(text) ==
    IF \E r \in 1..Len(text) : \E k \in 1..Len(text[r]) :
          CartParseTrack(text[r][k]) = None
    THEN None
    ELSE Some([track |-> [r \in 1..Len(text) |-> [k \in 1..Len(text[r]) |->
                             Unwrap(CartParseTrack(text[r][k]))]],
               carts |-> [c \in CartCells(text) |->
                             Unwrap(Cart_from_char(text[c.y + 1][c.x + 1]))],
               error_found |-> FALSE])

\* enum SimulationResult, and the Err an item of the iterator may be.
SimulationResult(type, coord) == [type |-> type, coord |-> coord]

\* One iteration of the while loop of SimulationIter::next for the cart that
\* stood at coord.  acc = [carts, previous_cart_coords, crash_coords,
\* first_collision_coord, error, panicked]: carts is self.carts; error and
\* panicked tell that the call has returned Some(Err) or has panicked.
CartLoopBody(acc, track, coord, cart) ==
    IF acc.error \/ acc.panicked THEN acc
    ELSE IF coord \in acc.crash_coords THEN acc
    ELSE LET moved == update_from_cart_direction(coord, cart.direction)
             waiting == acc.previous_cart_coords \ {coord}
         IN  IF track_index_panics(track, moved)
             THEN [acc EXCEPT !.previous_cart_coords = waiting,
                              !.panicked = TRUE]
             ELSE IF update_from_track(cart, track[moved.y + 1][moved.x + 1]).err
             THEN [acc EXCEPT !.previous_cart_coords = waiting,
                              !.error = TRUE]
             ELSE IF \/ moved \in acc.crash_coords
                     \/ moved \in DOMAIN acc.carts
                     \/ moved \in waiting
             THEN [acc EXCEPT
                      !.previous_cart_coords = waiting,
                      !.crash_coords = @ \cup {moved},
                      !.carts = MapRemove(@, moved),
                      !.first_collision_coord =
                          IF @ = None THEN Some(moved) ELSE @]
             ELSE [acc EXCEPT
                      !.previous_cart_coords = waiting,
                      !.carts = MapInsert(@, moved,
                          update_from_track(
                              cart, track[moved.y + 1][moved.x + 1]).cart)]

RECURSIVE CartLoop(_, _, _, _, _)
\* The while loop over previous_carts, whose keys in order are keys, from
\* the i-th on.
CartLoop(acc, track, previous_carts, keys, i) ==
    IF i > Len(keys) THEN acc
    ELSE CartLoop(CartLoopBody(acc, track, keys[i], previous_carts[keys[i]]),
                  track, previous_carts, keys, i + 1)

\* The loop of one call of next, from its start to its end.
CartLoopAll(s) ==
    CartLoop([carts |-> EmptyMap,
              previous_cart_coords |-> DOMAIN s.carts,
              crash_coords |-> {},
              first_collision_coord |-> None,
              error |-> FALSE,
              panicked |-> FALSE],
             s.track, s.carts, SortCoords(DOMAIN s.carts), 1)

\* A 3x3 crossing: four arms of one cell around a junction.
CrossLayout ==
    << <<" ", "|", " ">>,
       <<"-", "+", "-">>,
       <<" ", "|", " ">> >>

\* A 3x3 loop of curves and straight cells.
RingLayout ==
    << <<"/", "-", "\\">>,
       <<"|", " ", "|">>,
       <<"\\", "-", "/">> >>

\* The cells of a layout on which a cart can be written: the straight ones.
StraightCells(layout) ==
    {c \in UNION {{Coordinate(r - 1, k - 1) : k \in 1..Len(layout[r])} :
                     r \in 1..Len(layout)} :
        layout[c.y + 1][c.x + 1] \in {"|", "-"}}

\* The texts made of a layout and at most hi carts on its straight cells,
\* each cart heading one of the two ways of its cell.
CartTexts(layout, hi) ==
    UNION { {PlaceUnits(layout, u) :
                u \in {f \in [cells -> {"^", "v", "<", ">"}] :
                          \A c \in cells :
                             (layout[c.y + 1][c.x + 1] = "|")
                                <=> (f[c] \in {"^", "v"})}} :
            cells \in {s \in SUBSET StraightCells(layout) :
                          Cardinality(s) <= hi} }

\* The text of test_last_cart.
LastCartText ==
    << <<"/", ">", "-", "<", "\\">>,
       <<"|", " ", " ", " ", "|">>,
       <<"|", " ", "/", "<", "+", "-", "\\">>,
       <<"|", " ", "|", " ", "|", " ", "v">>,
       <<"\\", ">", "+", "<", "/", " ", "|">>,
       <<" ", " ", "|", " ", " ", " ", "^">>,
       <<" ", " ", "\\", "<", "-", ">", "/">> >>

\* The iterator is made from a parsed text; call keeps the carts before the
\* last call of next and the crash_coords of that call.
CartsInit ==
    /\ \E text \in CartTexts(CrossLayout, MaxCarts)
                     \cup CartTexts(RingLayout, MaxCarts)
                     \cup {LastCartText} :
          sim = Unwrap(CartsFromStr(text))
    /\ pc = "carts"
    /\ call = [before |-> EmptyMap, crash_coords |-> {}]
    /\ order = <<>>
    /\ idx = 1
    /\ log = <<>>
    /\ result = None
    /\ path = Idle

\* SimulationIter::next with no cart, or after an Err: None.
CartsNone ==
    /\ pc = "carts"
    /\ Cardinality(DOMAIN sim.carts) = 0 \/ sim.error_found
    /\ pc' = "returned"
    /\ result' = None
    /\ UNCHANGED <<sim, order, idx, log, path, call>>

\* SimulationIter::next with one cart: the cart is reported and dropped.
CartsLast ==
    /\ pc = "carts"
    /\ Cardinality(DOMAIN sim.carts) = 1
    /\ ~sim.error_found
    /\ result' = Some(SimulationResult("LastCart",
                          Some(SortCoords(DOMAIN sim.carts)[1])))
    /\ sim' = [sim EXCEPT !.carts = EmptyMap]
    /\ call' = [before |-> sim.carts, crash_coords |-> {}]
    /\ log' = Append(log, "LastCart")
    /\ UNCHANGED <<pc, order, idx, path>>

\* SimulationIter::next with two carts or more: every cart of previous_carts
\* has its turn; the call returns Collision, Step or an Err, or panics at an
\* index of the track.
CartsMove ==
    /\ pc = "carts"
    /\ Cardinality(DOMAIN sim.carts) > 1
    /\ ~sim.error_found
    /\ Len(log) < MaxCartTicks
    /\ \E acc \in {CartLoopAll(sim)} :
          /\ sim' = [sim EXCEPT !.carts = acc.carts,
                                !.error_found = acc.error]
          /\ call' = [before |-> sim.carts, crash_coords |-> acc.crash_coords]
          /\ pc' = IF acc.panicked THEN "panicked" ELSE pc
          /\ result' =
                IF acc.panicked THEN None
                ELSE IF acc.error
                THEN Some(SimulationResult("Err", None))
                ELSE IF acc.first_collision_coord # None
                THEN Some(SimulationResult("Collision",
                                           acc.first_collision_coord))
                ELSE Some(SimulationResult("Step", None))
          /\ log' = Append(log, IF acc.panicked THEN "panic"
                                ELSE IF acc.error THEN "Err"
                                ELSE IF acc.first_collision_coord # None
                                THEN "Collision" ELSE "Step")
    /\ UNCHANGED <<order, idx, path>>

CartsNext == CartsNone \/ CartsLast \/ CartsMove

CartsSpec == CartsInit /\ [][CartsNext]_vars

\* ======================================================================
\* aoc07: steps handed to a pool of workers (src/aoc07/src/main.rs)
\* ======================================================================

\* The values of NodeId = char that Edge::from_str lets through, in order.
NodeLetters == <<"A", "B", "C", "D", "E", "F">>

\* u32::from(node): the ASCII value of an upper-case letter.
AsciiValue(node) ==
    64 + (CHOOSE i \in 1..Len(NodeLetters) : NodeLetters[i] = node)

RECURSIVE SortNodes(_)
\* nodes.sort(): the nodes of a set in the order of char.
SortNodes(S) ==
    IF S = {} THEN <<>>
    ELSE LET m == CHOOSE n \in S : \A o \in S : AsciiValue(n) <= AsciiValue(o)
         IN  <<m>> \o SortNodes(S \ {m})

\* struct Edge(NodeId, NodeId)
Edge(from, to) == [from |-> from, to |-> to]

\* Graph::parse past the parsing of the lines: the fold over the edges.  A
\* node has an entry in incoming_list or outgoing_list only when an edge
\* gave it one.
GraphParse(edges) ==
    [incoming_list |->
        [n \in {e.to : e \in edges} |-> {e.from : e \in {d \in edges : d.to = n}}],
     outgoing_list |->
        [n \in {e.from : e \in edges} |-> {e.to : e \in {d \in edges : d.from = n}}],
     nodes |-> {e.from : e \in edges} \cup {e.to : e \in edges}]

\* next_accessible_nodes that does not look at incoming_list: every node
\* not yet accessible is returned.
next_accessible_nodes_NoDeps(graph, accessible_nodes) ==
    graph.nodes \ accessible_nodes

\* Graph::next_accessible_nodes
next_accessible_nodes(graph, accessible_nodes) ==
    {node_id \in graph.nodes :
        LET has_deps == IF node_id \in DOMAIN graph.incoming_list
                        THEN ~(graph.incoming_list[node_id]
                                  \subseteq accessible_nodes)
                        ELSE FALSE
        IN  ~has_deps /\ node_id \notin accessible_nodes}

\* enum Status
StatusIdle == [type |-> "Idle"]

Busy(until, node) == [type |-> "Busy", until |-> until, node |-> node]

\* WorkerPool::new
WorkerPoolNew(n) ==
    [workers |-> [w \in 1..n |-> StatusIdle],
     is_simple |-> FALSE,
     time |-> 0,
     processed |-> {},
     in_progress |-> {}]

\* WorkerPool::simple
simple(pool) == [pool EXCEPT !.is_simple = TRUE]

\* WorkerPool::get_node_duration
get_node_duration(node, is_simple) ==
    IF is_simple THEN AsciiValue(node) - 64 ELSE AsciiValue(node) - 4

\* The workers update_processed_nodes sets free: Busy with until <= time.
FinishedWorkers(pool) ==
    {w \in 1..Len(pool.workers) :
        /\ pool.workers[w].type = "Busy"
        /\ pool.workers[w].until <= pool.time}

\* WorkerPool::update_processed_nodes
update_processed_nodes(pool) ==
    [pool EXCEPT
        !.processed = @ \cup {pool.workers[w].node : w \in FinishedWorkers(pool)},
        !.in_progress = @ \ {pool.workers[w].node : w \in FinishedWorkers(pool)},
        !.workers = [w \in 1..Len(pool.workers) |->
                        IF w \in FinishedWorkers(pool) THEN StatusIdle
                        ELSE pool.workers[w]]]

\* The indices of the idle workers, in order: the filter of process_second.
IdleWorkers(pool) ==
    SelectSeq([w \in 1..Len(pool.workers) |-> w],
              LAMBDA w : pool.workers[w] = StatusIdle)

\* The pairs of the zip of process_second: the k-th idle worker with the
\* k-th node, for as many as both have.
Zipped(idle, sorted) ==
    [k \in 1..(IF Len(idle) < Len(sorted) THEN Len(idle) ELSE Len(sorted)) |->
        [worker_id |-> idle[k], node_id |-> sorted[k]]]

\* WorkerPool::process_second; nodes is the set of the elements of its Vec.
process_second(pool, nodes) ==
    LET pairs == Zipped(IdleWorkers(pool), SortNodes(nodes))
    IN  [pool EXCEPT
            !.in_progress = @ \cup {pairs[k].node_id : k \in 1..Len(pairs)},
            !.workers = [w \in 1..Len(pool.workers) |->
                IF \E k \in 1..Len(pairs) : pairs[k].worker_id = w
                THEN LET k == CHOOSE j \in 1..Len(pairs) : pairs[j].worker_id = w
                     IN  Busy(pool.time + get_node_duration(pairs[k].node_id,
                                                           pool.is_simple),
                              pairs[k].node_id)
                ELSE pool.workers[w]]]

\* The body of the loop of run_simulation up to its test: the pool after
\* update_processed_nodes and process_second.
LoopBody(pool, graph) ==
    LET updated == update_processed_nodes(pool)
        nodes_ready_for_workers ==
            {node_id \in next_accessible_nodes(graph, updated.processed) :
                node_id \notin updated.in_progress}
    IN  process_second(updated, nodes_ready_for_workers)

\* The steps that one pass of the loop has started: the workers that are
\* Busy after it and were not Busy with the same job before it.
Started(before, after) ==
    {w \in 1..Len(after.workers) :
        /\ after.workers[w].type = "Busy"
        /\ after.workers[w] # before.workers[w]}

\* The edges of test_completion_time.
TestEdges ==
    { Edge("C", "A"), Edge("C", "F"), Edge("A", "B"), Edge("A", "D"),
      Edge("B", "E"), Edge("D", "E"), Edge("F", "E") }

\* The sets of edges among the first MaxNodes letters that have no cycle:
\* the nodes can be ranked so that every edge goes up.
AcyclicEdgeSets ==
    LET letters == {NodeLetters[i] : i \in 1..MaxNodes}
        all == {Edge(a, b) : a, b \in letters} \ {Edge(a, a) : a \in letters}
    IN  {es \in SUBSET all :
            \E rank \in [letters -> 1..MaxNodes] :
                \A e \in es : rank[e.from] < rank[e.to]}

\* run_simulation is entered (self.time = 0) with a pool of one worker or
\* more, simple or not, and a graph without a cycle; the test's graph has
\* the test's pool.  log will hold the jobs as they are started.
PoolInit ==
    /\ \/ \E es \in AcyclicEdgeSets, n \in 1..MaxWorkers, s \in BOOLEAN :
             /\ call = [graph |-> GraphParse(es)]
             /\ sim = IF s THEN simple(WorkerPoolNew(n)) ELSE WorkerPoolNew(n)
       \/ /\ call = [graph |-> GraphParse(TestEdges)]
          /\ sim = simple(WorkerPoolNew(2))
    /\ pc = "pool"
    /\ log = <<>>
    /\ order = <<>>
    /\ idx = 1
    /\ result = None
    /\ path = Idle

\* The jobs one pass of the loop has started, in the order of the workers.
StartedJobs(before, after) ==
    LET ws == SelectSeq([w \in 1..Len(after.workers) |-> w],
                        LAMBDA w : w \in Started(before, after))
    IN  [k \in 1..Len(ws) |->
            [node |-> after.workers[ws[k]].node, worker |-> ws[k],
             at |-> after.time, until |-> after.workers[ws[k]].until]]

\* One pass of the loop of run_simulation after which a worker is busy:
\* self.time += 1.
PoolSecond ==
    /\ pc = "pool"
    /\ \E after \in {LoopBody(sim, call.graph)} :
          /\ \E w \in 1..Len(after.workers) : after.workers[w] # StatusIdle
          /\ sim' = [after EXCEPT !.time = @ + 1]
          /\ log' = log \o StartedJobs(update_processed_nodes(sim), after)
    /\ UNCHANGED <<pc, order, idx, result, path, call>>

\* The pass of the loop after which every worker is idle: break, and
\* run_simulation returns self.time.
PoolReturn ==
    /\ pc = "pool"
    /\ \E after \in {LoopBody(sim, call.graph)} :
          /\ \A w \in 1..Len(after.workers) : after.workers[w] = StatusIdle
          /\ sim' = after
          /\ result' = Some(after.time)
    /\ pc' = "returned"
    /\ UNCHANGED <<order, idx, log, path, call>>

PoolNext == PoolSecond \/ PoolReturn

PoolSpec == PoolInit /\ [][PoolNext]_vars

\* ======================================================================
\* Properties.  The definitions below state what is checked of the model;
\* they use their own notions of adjacency, reachability and distance.
\* ======================================================================

\* Two coordinates one orthogonal step apart.
Adjacent(a, b) ==
    \/ a.y = b.y /\ (a.x = b.x + 1 \/ b.x = a.x + 1)
    \/ a.x = b.x /\ (a.y = b.y + 1 \/ b.y = a.y + 1)

\* Reading order, written out.
Before(a, b) == a.y < b.y \/ (a.y = b.y /\ a.x < b.x)

\* The first coordinate of a non-empty set in reading order.
First(S) == CHOOSE c \in S : \A d \in S : c = d \/ Before(c, d)

\* The Space cells of an arena.
SpaceCells(grid) ==
    {c \in [y : 0..Len(grid) - 1, x : 0..Len(grid[1]) - 1] :
        grid[c.y + 1][c.x + 1] = "Space"}

RECURSIVE Flood(_, _, _, _)
\* Breadth-first levels: dist maps the cells found so far to their distance,
\* frontier is the level at distance n, free the cells that may be entered.
Flood(dist, frontier, n, free) ==
    LET next == {c \in free \ DOMAIN dist : \E f \in frontier : Adjacent(c, f)}
    IN  IF next = {} THEN dist
        ELSE Flood([c \in DOMAIN dist \cup next |->
                       IF c \in next THEN n + 1 ELSE dist[c]],
                   next, n + 1, free)

\* The least number of orthogonal steps from src to every cell reachable
\* through Space cells that hold no unit.
Distances(src, grid, occupied) ==
    Flood([c \in {src} |-> 0], {src}, 0, (SpaceCells(grid) \ occupied) \ {src})

\* The last record of a non-empty log.
Last(l) == l[Len(l)]

\* The coordinate of the unit with an id in a mapping that holds it.
Where(players, id) == CHOOSE c \in DOMAIN players : players[c].id = id

\* The ids of the units of a mapping.
IdsOf(players) == {players[c].id : c \in DOMAIN players}

\* C1: a call of tick credits the round (rounds grows by exactly 1) if and
\* only if every id of the start-of-round order was handled and each unit
\* still alive at its turn found both factions present; otherwise the last
\* unit handled is a living unit that found at most one faction, the counter
\* is unchanged and no later id of the order is handled.  No other step
\* changes the counter.
C1_RoundCredited ==
    [][ IF pc' = "idle"
        THEN \/ /\ Len(log') = Len(order')
                /\ \A i \in 1..Len(log') : log'[i].alive => log'[i].factions = 2
                /\ sim'.rounds = sim.rounds + 1
             \/ /\ Len(log') >= 1
                /\ Last(log').alive /\ Last(log').factions <= 1
                /\ \A i \in 1..Len(log') - 1 :
                      log'[i].alive => log'[i].factions = 2
                /\ sim'.rounds = sim.rounds
                /\ sim'.players = sim.players
        ELSE sim'.rounds = sim.rounds ]_vars

\* C1 witness: a tick has ended early after a credited round: the last unit
\* handled found one faction, and an id of the order was never handled.
C1_Witness ==
    /\ pc = "idle"
    /\ sim.rounds >= 1
    /\ Len(log) >= 1
    /\ Len(log) < Len(order)
    /\ Last(log).alive /\ Last(log).factions = 1

\* C2: as a tick starts, the order lists the id of every unit exactly once,
\* sorted by the reading order of the units' positions at that moment; the
\* closure then handles the ids of the order one by one, so each unit has at
\* most one turn in the round; an id whose unit is no longer in the mapping
\* changes nothing, and a unit that acts is in the mapping as its turn starts.
C2_TurnOrder ==
    [][ /\ (pc = "idle" /\ pc' = "tick") =>
            /\ Len(order') = Cardinality(DOMAIN sim.players)
            /\ \A i \in 1..Len(order') : order'[i] \in IdsOf(sim.players)
            /\ \A i, j \in 1..Len(order') :
                  i < j => Before(Where(sim.players, order'[i]),
                                  Where(sim.players, order'[j]))
        /\ pc = "tick" =>
            /\ order' = order
            /\ idx = Len(log) + 1
            /\ Len(log') = Len(log) + 1
            /\ Last(log').id = order[idx]
            /\ order[idx] \notin IdsOf(sim.players) =>
                  /\ sim'.players = sim.players
                  /\ Last(log').action = None
            /\ Last(log').action # None =>
                  /\ order[idx] \in IdsOf(sim.players)
                  /\ Last(log').from = Some(Where(sim.players, order[idx]))
      ]_vars

\* C2 witness: in the middle of a round the next id is that of a unit killed
\* earlier in the round, after another unit has moved.
C2_Witness ==
    /\ pc = "tick"
    /\ order[idx] \notin IdsOf(sim.players)
    /\ \E i \in 1..Len(log) : log[i].action # None

\* C3: every unit in the mapping has health between 1 and 200, at every
\* point between two turns; no turn raises a unit's health or brings a unit
\* back; and a unit struck when its health is at most the power of the
\* acting unit is gone from the mapping after that same turn.
C3_HealthBounds ==
    /\ [](\A c \in DOMAIN sim.players :
             sim.players[c].health >= 1 /\ sim.players[c].health <= 200)
    /\ [][ /\ \A c \in DOMAIN sim.players, d \in DOMAIN sim'.players :
                 sim.players[c].id = sim'.players[d].id =>
                     sim'.players[d].health <= sim.players[c].health
           /\ IdsOf(sim'.players) \subseteq IdsOf(sim.players)
           /\ (pc = "tick" /\ order[idx] \in IdsOf(sim.players)) =>
                 \A c \in DOMAIN sim.players :
                     (/\ sim.players[c].id # order[idx]
                      /\ sim.players[c].health <=
                            sim.players[Where(sim.players, order[idx])].power
                      /\ \/ c \notin DOMAIN sim'.players
                         \/ sim'.players[c] # sim.players[c])
                     => sim.players[c].id \notin IdsOf(sim'.players)
         ]_vars

\* C3 witness: the last turn struck a unit, and that unit has left the
\* mapping while the round goes on.
C3_Witness ==
    /\ pc = "tick"
    /\ Len(log) >= 1
    /\ Last(log).action # None
    /\ Unwrap(Last(log).action).target # None
    /\ Unwrap(Unwrap(Last(log).action).target) \notin DOMAIN sim.players

\* The opponents of the unit me that stand next to cell in a mapping.
FoesAt(players, me, cell) ==
    {c \in DOMAIN players : Adjacent(c, cell) /\ players[c].kind # me.kind}

\* The unit of a non-empty set of coordinates with the least health, the
\* first in reading order among those of equal health.
Weakest(players, S) ==
    CHOOSE t \in S : \A u \in S :
        \/ players[t].health < players[u].health
        \/ /\ players[t].health = players[u].health
           /\ (t = u \/ Before(t, u))

\* The units of the mapping before a turn, other than the acting one, that
\* the turn changed or removed.
StruckBy(before, after, id) ==
    {c \in DOMAIN before :
        /\ before[c].id # id
        /\ c \notin DOMAIN after \/ after[c] # before[c]}

\* C8: a living unit whose position, as its turn starts, is next to an
\* opponent gets Attack from step, and stands on the same coordinate after
\* the turn.
C8_AdjacentAttacks ==
    [][ (pc = "tick" /\ order[idx] \in IdsOf(sim.players)) =>
          LET p == Where(sim.players, order[idx])
              me == sim.players[p]
          IN  FoesAt(sim.players, me, p) # {} =>
                /\ Last(log').action # None
                /\ Unwrap(Last(log').action).type = "Attack"
                /\ p \in DOMAIN sim'.players
                /\ sim'.players[p] = me
      ]_vars

\* C8 witness: the last turn was an Attack by a unit that stays where it was.
C8_Witness ==
    /\ pc = "tick"
    /\ Len(log) >= 1
    /\ Last(log).action # None
    /\ Unwrap(Last(log).action).type = "Attack"
    /\ Unwrap(Last(log).from) \in DOMAIN sim.players
    /\ sim.players[Unwrap(Last(log).from)].id = Last(log).id

\* C9: a turn strikes at most one unit, and the unit struck is an opponent of
\* the acting unit next to the cell the acting unit attacks from (where it
\* stands after the turn), the one of least health before the blow, the first
\* in reading order among those of equal health.
C9_TargetChoice ==
    [][ (pc = "tick" /\ order[idx] \in IdsOf(sim.players)) =>
          LET p == Where(sim.players, order[idx])
              me == sim.players[p]
              struck == StruckBy(sim.players, sim'.players, order[idx])
          IN  /\ order[idx] \in IdsOf(sim'.players)
              /\ Cardinality(struck) <= 1
              /\ \A t \in struck :
                    LET cell == Where(sim'.players, order[idx])
                        foes == FoesAt(sim.players, me, cell)
                    IN  /\ t \in foes
                        /\ t = Weakest(sim.players, foes)
      ]_vars

\* C9 witness: the unit just struck is still alive and was weaker than
\* another opponent next to the attacker that comes before it in reading
\* order.
C9_Witness ==
    /\ pc = "tick"
    /\ Len(log) >= 1
    /\ Last(log).action # None
    /\ Unwrap(Last(log).action).target # None
    /\ LET t == Unwrap(Unwrap(Last(log).action).target)
           cell == Where(sim.players, Last(log).id)
           me == sim.players[cell]
       IN  /\ t \in DOMAIN sim.players
           /\ \E u \in FoesAt(sim.players, me, cell) :
                 /\ Before(u, t)
                 /\ sim.players[t].health + me.power < sim.players[u].health

\* C10: a unit that changes coordinate in its turn goes one orthogonal step,
\* unchanged itself.  If an opponent stands next to the new cell, the action
\* is MoveAndAttack and the weakest opponent next to the new cell has lost
\* the unit's power in health, or has left the mapping when it had no more
\* than that; no other unit is changed.  If no opponent stands next to the
\* new cell, the action is Move and no other unit is changed.
C10_MoveThenAttack ==
    [][ (/\ pc = "tick"
         /\ order[idx] \in IdsOf(sim.players)
         /\ order[idx] \in IdsOf(sim'.players)
         /\ Where(sim'.players, order[idx]) # Where(sim.players, order[idx])) =>
          LET p == Where(sim.players, order[idx])
              q == Where(sim'.players, order[idx])
              me == sim.players[p]
              foes == FoesAt(sim.players, me, q)
              struck == StruckBy(sim.players, sim'.players, order[idx])
          IN  /\ Adjacent(p, q)
              /\ sim'.players[q] = me
              /\ IF foes # {}
                 THEN LET t == Weakest(sim.players, foes)
                      IN  /\ Unwrap(Last(log').action).type = "MoveAndAttack"
                          /\ struck = {t}
                          /\ IF sim.players[t].health > me.power
                             THEN /\ t \in DOMAIN sim'.players
                                  /\ sim'.players[t] =
                                       [sim.players[t] EXCEPT
                                           !.health = @ - me.power]
                             ELSE sim.players[t].id \notin IdsOf(sim'.players)
                 ELSE /\ Unwrap(Last(log').action).type = "Move"
                      /\ struck = {}
      ]_vars

\* C10 witness: the last turn was a MoveAndAttack that killed its target.
C10_Witness ==
    /\ pc = "tick"
    /\ Len(log) >= 1
    /\ Last(log).action # None
    /\ Unwrap(Last(log).action).type = "MoveAndAttack"
    /\ Unwrap(Unwrap(Last(log).action).target) \notin DOMAIN sim.players
    /\ Unwrap(Unwrap(Last(log).action).coord) \in DOMAIN sim.players

\* The cells in attack range of a unit: cells it can reach (Space, holding no
\* unit, joined to its position) that are next to an opponent.  dist is
\* Distances from the unit's position.
InRange(dist, players, me) ==
    {c \in DOMAIN dist : FoesAt(players, me, c) # {}}

\* The cell of a non-empty set nearest by dist, the first in reading order
\* among the nearest.
Nearest(dist, S) ==
    CHOOSE t \in S : \A u \in S :
        \/ dist[t] < dist[u]
        \/ dist[t] = dist[u] /\ (t = u \/ Before(t, u))

\* The cells next to p from which target is one step nearer than from p.
FirstSteps(p, target, grid, occupied) ==
    LET back == Distances(target, grid, occupied)
    IN  {s \in DOMAIN back : Adjacent(s, p) /\ back[s] + 1 = back[p]}

\* C4: when the acting unit is next to no opponent and some cell is in attack
\* range, step returns Move or MoveAndAttack to a cell next to the unit from
\* which the nearest attack-range cell (least step count, then reading order)
\* is one step nearer; that cell is the one step's min_by_key picks.
C4_NearestInRange ==
    (pc = "step" /\ call.ret # None) =>
        LET dist == Distances(call.current_pos, call.arena, DOMAIN call.players)
            cells == InRange(dist, call.players, call.self)
            a == Unwrap(call.ret)
        IN  (cells # {} /\ call.current_pos \notin cells) =>
               /\ a.type \in {"Move", "MoveAndAttack"}
               /\ Unwrap(a.coord) \in
                     FirstSteps(call.current_pos, Nearest(dist, cells),
                                call.arena, DOMAIN call.players)
               /\ ClosestTarget(
                     PathFinderNew(call.current_pos, call.arena, call.players),
                     attack_coords(call.self,
                         PathFinderNew(call.current_pos, call.arena, call.players),
                         call.arena, call.players))
                  = Nearest(dist, cells)

\* C4 witness: step has returned a move while two cells in attack range are
\* equally near and a third, earlier in reading order, is farther.
C4_Witness ==
    /\ pc = "step"
    /\ call.ret # None
    /\ Unwrap(call.ret).type = "Move"
    /\ LET dist == Distances(call.current_pos, call.arena, DOMAIN call.players)
           cells == InRange(dist, call.players, call.self)
       IN  /\ \E t, u \in cells : t # u /\ dist[t] = dist[u]
                                 /\ t = Nearest(dist, cells)
           /\ \E v \in cells : Before(v, Nearest(dist, cells))

\* C5 as claimed: the cell a unit steps to is the first in reading order of
\* the cells next to it that start a shortest path to the chosen cell.
C5_FirstStepInReadingOrder ==
    (pc = "step" /\ call.ret # None /\ Unwrap(call.ret).coord # None) =>
        LET dist == Distances(call.current_pos, call.arena, DOMAIN call.players)
            cells == InRange(dist, call.players, call.self)
        IN  Unwrap(Unwrap(call.ret).coord) =
               First(FirstSteps(call.current_pos, Nearest(dist, cells),
                                call.arena, DOMAIN call.players))

\* C6: when the loop of PathFinder::new ends, the keys of the map are the
\* cells reachable from the source through Space cells that hold no unit,
\* the source has no predecessor, and every other key holds the step count
\* of its predecessor, one less than its own least distance.
C6_ReachableKeys ==
    (pc = "path" /\ BagToSet(path.heap) = {}) =>
        LET dist == Distances(path.current_pos, path.arena, DOMAIN path.players)
        IN  /\ DOMAIN path.map = DOMAIN dist
            /\ path.map[path.current_pos] = None
            /\ \A c \in DOMAIN path.map \ {path.current_pos} :
                  /\ path.map[c] # None
                  /\ Unwrap(path.map[c]).steps + 1 = dist[c]

\* C6 witness: the loop has ended with a key four steps from the source and
\* a Space cell that holds no unit and is no key: units cut it off.
C6_Witness ==
    /\ pc = "path"
    /\ BagToSet(path.heap) = {}
    /\ DOMAIN path.players # {}
    /\ \E c \in DOMAIN path.map :
          path.map[c] # None /\ Unwrap(path.map[c]).steps >= 3
    /\ (SpaceCells(path.arena) \ DOMAIN path.players) \ DOMAIN path.map # {}

\* C7: when the loop ends, the predecessor of every key other than the
\* source is the first in reading order of its neighbours one step nearer to
\* the source; and an iteration replaces an entry only by a link of fewer
\* steps, or of equal steps and a coordinate earlier in reading order.
C7_LeastPredecessor ==
    /\ []((pc = "path" /\ BagToSet(path.heap) = {}) =>
            LET dist == Distances(path.current_pos, path.arena,
                                  DOMAIN path.players)
            IN  \A c \in DOMAIN path.map \ {path.current_pos} :
                   /\ path.map[c] # None
                   /\ c \in DOMAIN dist
                   /\ Unwrap(path.map[c]).coord =
                         First({n \in DOMAIN dist :
                                  Adjacent(n, c) /\ dist[n] + 1 = dist[c]}))
    /\ [][ pc = "path" =>
             \A c \in DOMAIN path.map :
                (path.map[c] # None /\ path'.map[c] # path.map[c]) =>
                   LET old == Unwrap(path.map[c])
                       new == Unwrap(path'.map[c])
                   IN  \/ new.steps < old.steps
                       \/ new.steps = old.steps /\ Before(new.coord, old.coord)
         ]_vars

\* C7 witness: an entry has been replaced (its coordinate is in the heap
\* twice) during the construction.
C7_Witness ==
    /\ pc = "path"
    /\ \E l \in BagToSet(path.heap) : CopiesIn(l, path.heap) >= 2

\* C11: when step is called for a unit and no Space cell next to an opponent
\* is both free of other units and joined to the unit's position (its own
\* cell counts as joined), step returns Stay, and after the turn the unit
\* stands where it stood and the mapping, healths included, is what it was.
C11_StayWhenNoRange ==
    [][ (pc = "tick" /\ Last(log').action # None) =>
          LET p == Where(sim.players, order[idx])
              me == sim.players[p]
              dist == Distances(p, sim.arena, DOMAIN sim.players \ {p})
          IN  InRange(dist, sim.players, me) = {} =>
                /\ Unwrap(Last(log').action) = Stay
                /\ p \in DOMAIN sim'.players
                /\ sim'.players[p] = me
                /\ sim'.players = sim.players
      ]_vars

\* C11 witness: the last turn was a Stay by a unit that has an opponent with
\* a free Space cell next to it: other units stand in the way.
C11_Witness ==
    /\ pc = "tick"
    /\ Len(log) >= 1
    /\ Last(log).action # None
    /\ Unwrap(Last(log).action) = Stay
    /\ LET p == Unwrap(Last(log).from)
       IN  /\ p \in DOMAIN sim.players
           /\ sim.players[p].id = Last(log).id
           /\ \E c \in SpaceCells(sim.arena) \ DOMAIN sim.players :
                 FoesAt(sim.players, sim.players[p], c) # {}

\* C12: when Player::attack returns, the defender's health is its health
\* before less the attacker's power, or 0 when that would be negative: a
\* value from 0 up to the health before; nothing else of the defender and
\* nothing of the attacker is changed; and the call returns true exactly
\* when the health is now 0.
C12_AttackFloorsAtZero ==
    (pc = "attack" /\ call.ret # None) =>
        LET h == call.before.health
            d == h - call.self.power
        IN  /\ call.opponent.health = (IF d > 0 THEN d ELSE 0)
            /\ call.opponent.health >= 0 /\ call.opponent.health <= h
            /\ call.opponent = [call.before EXCEPT !.health = call.opponent.health]
            /\ Unwrap(call.ret) = (call.opponent.health = 0)

\* C12 witness: the call has returned true for a defender whose health was
\* less than the attacker's power.
C12_Witness ==
    /\ pc = "attack"
    /\ call.ret = Some(TRUE)
    /\ call.before.health < call.self.power
    /\ call.opponent.health = 0

RECURSIVE HealthTotal(_, _)
\* The healths of the units of a mapping standing on the cells of S, added up.
HealthTotal(players, S) ==
    IF S = {} THEN 0
    ELSE LET c == CHOOSE d \in S : TRUE
         IN  players[c].health + HealthTotal(players, S \ {c})

\* C13: when run has returned, the units left in the mapping are of at most
\* one faction and the value returned is the sum of their healths times the
\* round counter; run returns from a state between two ticks and changes
\* neither the mapping nor the counter.
C13_RunScore ==
    /\ []((pc = "returned") =>
            /\ \A c, d \in DOMAIN sim.players :
                   sim.players[c].kind = sim.players[d].kind
            /\ result = Some(HealthTotal(sim.players, DOMAIN sim.players)
                                * sim.rounds))
    /\ [][ pc' = "returned" => (pc = "idle" /\ sim' = sim) ]_vars

\* C13 witness: run has returned after at least two credited rounds with two
\* survivors of different healths.
C13_Witness ==
    /\ pc = "returned"
    /\ sim.rounds >= 2
    /\ \E c, d \in DOMAIN sim.players :
          sim.players[c].health < sim.players[d].health
    /\ result # Some(0)

\* The cells of a text that hold one of the letters.
LettersAt(text, letters) ==
    {c \in [y : 0..Len(text) - 1, x : 0..Len(text[1]) - 1] :
        text[c.y + 1][c.x + 1] \in letters}

\* The units of a faction in a mapping.
UnitsOf(players, kind) == {c \in DOMAIN players : players[c].kind = kind}

\* C14: when find_elf_power returns a score, the runs made were those of the
\* powers 4, 5, ... in turn, the score is that of the last run made (the sum
\* of the healths left times the rounds credited), the last run ended with
\* as many elves as the text has, and every run before it ended with fewer:
\* the last power is the smallest of the range that loses no elf.  Every
\* run starts from the text parsed anew: no round credited, units where the
\* text has its letters, every health 200, every goblin's power 3, every
\* elf's power the candidate.
C14_SmallestLosslessPower ==
    /\ []((pc = "returned" /\ result # None /\ Unwrap(result).ok) =>
            /\ Len(log) >= 1
            /\ \A i \in 1..Len(log) : log[i].power = 3 + i
            /\ Last(log).power \in 4..199
            /\ Unwrap(result).value =
                  HealthTotal(Last(log).end.players, DOMAIN Last(log).end.players)
                      * Last(log).end.rounds
            /\ Cardinality(UnitsOf(Last(log).end.players, "Elf"))
                  = Cardinality(LettersAt(call.input, {"E"}))
            /\ \A i \in 1..Len(log) - 1 :
                  Cardinality(UnitsOf(log[i].end.players, "Elf"))
                      < Cardinality(LettersAt(call.input, {"E"})))
    /\ [][ (pc = "find" /\ pc' = "find_run") =>
             /\ sim'.rounds = 0
             /\ call'.power = 4 + Len(log)
             /\ call'.input = call.input
             /\ UnitsOf(sim'.players, "Elf") = LettersAt(call.input, {"E"})
             /\ UnitsOf(sim'.players, "Goblin") = LettersAt(call.input, {"G"})
             /\ \A c \in DOMAIN sim'.players :
                   /\ sim'.players[c].health = 200
                   /\ sim'.players[c].power =
                         IF sim'.players[c].kind = "Elf" THEN call'.power ELSE 3
             /\ \A c \in LettersAt(call.input, {".", "#", "E", "G"}) :
                   CellAt(sim'.arena, c) =
                       IF call.input[c.y + 1][c.x + 1] = "#" THEN "Wall"
                       ELSE "Space"
         ]_vars

\* C14 witness: a score has been returned after runs that lost an elf, by
\* a run in which every elf was struck.
C14_Witness ==
    /\ pc = "returned"
    /\ result # None
    /\ Unwrap(result).ok
    /\ Len(log) >= 2
    /\ Unwrap(result).value > 0
    /\ \A c \in DOMAIN sim.players : sim.players[c].health < 200

\* C15 as claimed: whenever find_elf_power returns a score, the run that
\* produced it ended with at least one elf and no goblin in the mapping, and
\* with as many elves as the text has.
C15_ElvesSoleSurvivors ==
    (pc = "returned" /\ result # None /\ Unwrap(result).ok) =>
        /\ UnitsOf(sim.players, "Elf") # {}
        /\ UnitsOf(sim.players, "Goblin") = {}
        /\ Cardinality(UnitsOf(sim.players, "Elf"))
              = Cardinality(LettersAt(call.input, {"E"}))

\* A finished run that the elves won without a loss.
LosslessElfWin(text, end) ==
    /\ UnitsOf(end.players, "Elf") # {}
    /\ UnitsOf(end.players, "Goblin") = {}
    /\ Cardinality(UnitsOf(end.players, "Elf"))
          = Cardinality(LettersAt(text, {"E"}))

\* C16 as claimed: when find_elf_power returns for a text that parses and no
\* power of the range gives a lossless elf win (the text has no elf at all,
\* or all the runs from 4 to 199 were made and none was such a win), the
\* value returned is the error of exhaustion, which is not the parse error.
C16_ExhaustionIsAnError ==
    (/\ pc = "returned"
     /\ LettersAt(call.input, {".", "#", "E", "G"})
           = LettersAt(call.input, {call.input[r][k] :
                                      r \in 1..Len(call.input),
                                      k \in 1..Len(call.input[1])})
     /\ \/ LettersAt(call.input, {"E"}) = {}
        \/ /\ Len(log) = 196
           /\ \A i \in 1..Len(log) : ~LosslessElfWin(call.input, log[i].end))
    => /\ result = Some(ExhaustedError)
       /\ ExhaustedError # ParseError

\* A text has a character that is none of the four of a grid.
HasBadChar(text) ==
    \E r \in 1..Len(text) : \E k \in 1..Len(text[r]) :
        text[r][k] \notin {".", "#", "E", "G"}

\* C17: for a text with a character other than '.', '#', 'E' and 'G',
\* from_str returns its error, and find_elf_power never holds a Simulation,
\* never runs a tick or finishes a run, and returns that same error.
C17_BadCharRejected ==
    HasBadChar(call.input) =>
        /\ from_str(call.input) = None
        /\ sim = Idle
        /\ log = <<>>
        /\ pc \in {"find", "returned"}
        /\ pc = "returned" => result = Some(ParseError)
        /\ ParseError.ok = FALSE

\* C17 witness: the parse error has been returned for a text that has the
\* letter of a unit before its bad character.
C17_Witness ==
    /\ pc = "returned"
    /\ result = Some(ParseError)
    /\ \E r \in 1..Len(call.input) : \E k \in 1..Len(call.input[r]) :
          /\ call.input[r][k] \notin {".", "#", "E", "G"}
          /\ \E q \in 1..r - 1 : \E j \in 1..Len(call.input[q]) :
                call.input[q][j] \in {"E", "G"}

\* The 7x7 grid of the example, row by row.
SevenBySeven ==
    << <<"#", "#", "#", "#", "#", "#", "#">>,
       <<"#", ".", "G", ".", ".", ".", "#">>,
       <<"#", ".", ".", ".", "E", "G", "#">>,
       <<"#", ".", "#", ".", "#", "G", "#">>,
       <<"#", ".", ".", "G", "#", "E", "#">>,
       <<"#", ".", ".", ".", ".", ".", "#">>,
       <<"#", "#", "#", "#", "#", "#", "#">> >>

\* C20: on the 7x7 grid find_elf_power returns the score 4988, from the run
\* with power 15; that run ends with both elves and no goblin, and the run
\* of every power from 4 to 14 ends with an elf lost.
C20_ExamplePower15 ==
    (pc = "returned" /\ call.input = SevenBySeven) =>
        /\ result = Some(Ok(4988))
        /\ call.power = 15
        /\ Len(log) = 12
        /\ \A i \in 1..11 :
              /\ log[i].power = 3 + i
              /\ Cardinality(UnitsOf(log[i].end.players, "Elf")) < 2
        /\ log[12].power = 15
        /\ LosslessElfWin(SevenBySeven, log[12].end)
        /\ HealthTotal(sim.players, DOMAIN sim.players) * sim.rounds = 4988

\* C20 witness: find_elf_power has returned on the 7x7 grid with two elves
\* in the mapping.
C20_Witness ==
    /\ pc = "returned"
    /\ call.input = SevenBySeven
    /\ Cardinality(UnitsOf(sim.players, "Elf")) = 2
    /\ UnitsOf(sim.players, "Goblin") = {}

RECURSIVE HealthsInOrder(_, _)
\* The healths of the units standing on the cells of S, in reading order.
HealthsInOrder(players, S) ==
    IF S = {} THEN <<>>
    ELSE <<players[First(S)].health>> \o HealthsInOrder(players, S \ {First(S)})

\* C19: on the 7x7 grid with power 3 and health 200, after the first tick
\* the healths in reading order are 200, 197, 197, 200, 197, 197; and when
\* run has returned, 47 rounds are credited, the units left are four
\* goblins of healths 200, 131, 59, 200 in reading order, and the value
\* returned is 27730.
C19_ExampleBattle ==
    call.input = SevenBySeven =>
        /\ (pc = "idle" /\ sim.rounds = 0) =>
              /\ HealthsInOrder(sim.players, DOMAIN sim.players)
                    = <<200, 200, 200, 200, 200, 200>>
              /\ \A c \in DOMAIN sim.players : sim.players[c].power = 3
        /\ (pc = "idle" /\ sim.rounds = 1) =>
              HealthsInOrder(sim.players, DOMAIN sim.players)
                  = <<200, 197, 197, 200, 197, 197>>
        /\ pc = "returned" =>
              /\ sim.rounds = 47
              /\ HealthsInOrder(sim.players, DOMAIN sim.players)
                    = <<200, 131, 59, 200>>
              /\ \A c \in DOMAIN sim.players : sim.players[c].kind = "Goblin"
              /\ result = Some(27730)

\* C19 witness: run has returned on the 7x7 grid.
C19_Witness ==
    /\ call.input = SevenBySeven
    /\ pc = "returned"
    /\ sim.rounds > 1
    /\ Cardinality(DOMAIN sim.players) = 4

\* C18: two simulations built from the same text and the same elf power and
\* stepped tick by tick side by side are equal after every tick (the units'
\* positions, healths, ids and powers, and the round counter), whatever order
\* the heap of either's PathFinder pops links of equal steps in; and the two
\* scores returned are equal.
C18_Deterministic ==
    pc \in {"pair", "returned"} =>
        /\ sim.a = sim.b
        /\ pc = "returned" => Unwrap(result).a = Unwrap(result).b

\* C18 witness: both runs have returned after two rounds or more with a unit
\* that has lost health, on a text with three units.
C18_Witness ==
    /\ pc = "returned"
    /\ sim.a.rounds >= 2
    /\ Unwrap(result).a > 0
    /\ \E c \in DOMAIN sim.a.players : sim.a.players[c].health < 200
    /\ \E c \in DOMAIN sim.a.players : sim.a.players[c].id = 2


\* C21: the text Display gives for a simulation, in any state between two
\* ticks, parses; the simulation parsed from it has the same cell (Space or
\* Wall) at every coordinate and units of the same factions on the same
\* coordinates; and the text shown for a simulation just parsed, before any
\* tick, is the text it was parsed from, line for line.
C21_RenderParseRoundTrip ==
    (pc = "render" /\ call.shown # None) =>
        LET shown == Unwrap(call.shown)
            again == Unwrap(call.again)
        IN  /\ again # None
            /\ Len(Unwrap(again).arena) = Len(sim.arena)
            /\ \A r \in 1..Len(sim.arena) :
                  /\ Len(Unwrap(again).arena[r]) = Len(sim.arena[r])
                  /\ \A k \in 1..Len(sim.arena[r]) :
                        Unwrap(again).arena[r][k] = sim.arena[r][k]
            /\ UnitsOf(Unwrap(again).players, "Elf") = UnitsOf(sim.players, "Elf")
            /\ UnitsOf(Unwrap(again).players, "Goblin")
                  = UnitsOf(sim.players, "Goblin")
            /\ log = <<>> =>
                  /\ Len(shown) = Len(call.input)
                  /\ \A r \in 1..Len(shown) : shown[r] = call.input[r]

\* C21 witness: a simulation has been shown after a tick in which a unit
\* lost health, with both factions on the grid: the simulation parsed from
\* the text has the units but not their healths.
C21_Witness ==
    /\ pc = "render"
    /\ call.shown # None
    /\ Len(log) >= 1
    /\ UnitsOf(sim.players, "Elf") # {}
    /\ UnitsOf(sim.players, "Goblin") # {}
    /\ \E c \in DOMAIN sim.players : sim.players[c].health < 200
    /\ Unwrap(Unwrap(call.again)).players # sim.players
    /\ Unwrap(call.shown) # call.input

\* A coordinate of the first or last row or column of a text.
OnBoundary(text, c) ==
    \/ c.y = 0 \/ c.y = Len(text) - 1
    \/ c.x = 0 \/ c.x = Len(text[1]) - 1

\* The place of a neighbour of c in the order Up, Down, Left, Right (0 for a
\* coordinate that is no neighbour).
Side(c, n) ==
    IF n.x = c.x /\ n.y = c.y - 1 THEN 1
    ELSE IF n.x = c.x /\ n.y = c.y + 1 THEN 2
    ELSE IF n.y = c.y /\ n.x = c.x - 1 THEN 3
    ELSE IF n.y = c.y /\ n.x = c.x + 1 THEN 4
    ELSE 0

\* C22: a call of get_adjacent on a coordinate off the boundary returns; the
\* list holds the orthogonal neighbours whose character in the text is not
\* '#' (a unit's letter is a Space cell), each once, in the order Up, Down,
\* Left, Right.  A call on a coordinate of the boundary is fatal and returns
\* nothing.  The call leaves the arena as it was.
C22_AdjacentSpaces ==
    /\ []((pc = "adjacent" /\ call.ret # None) =>
            LET got == Unwrap(call.ret)
            IN  /\ ~OnBoundary(call.input, call.coord)
                /\ \A i \in 1..Len(got) : Side(call.coord, got[i]) \in 1..4
                /\ \A i, j \in 1..Len(got) :
                      i < j => Side(call.coord, got[i]) < Side(call.coord, got[j])
                /\ \A n \in [y : 0..Len(call.input) - 1,
                             x : 0..Len(call.input[1]) - 1] :
                      (Adjacent(n, call.coord)
                         /\ call.input[n.y + 1][n.x + 1] # "#")
                      <=> (\E i \in 1..Len(got) : got[i] = n))
    /\ [][ (pc = "adjacent" /\ call.ret = None) =>
             /\ call'.arena = call.arena
             /\ call'.coord = call.coord
             /\ IF OnBoundary(call.input, call.coord)
                THEN pc' = "panicked" /\ call'.ret = None
                ELSE pc' = "adjacent" /\ call'.ret # None
         ]_vars

\* C22 witness: the call has returned two or three neighbours, one of them a
\* cell on which a unit stands.
C22_Witness ==
    /\ pc = "adjacent"
    /\ call.ret # None
    /\ Len(Unwrap(call.ret)) \in {2, 3}
    /\ \E i \in 1..Len(Unwrap(call.ret)) :
          call.input[Unwrap(call.ret)[i].y + 1][Unwrap(call.ret)[i].x + 1]
              \in {"E", "G"}

\* C23: the action of a unit's turn is decided on the mapping of that
\* moment.  With distances and attack range taken over the units in the
\* mapping as the turn starts (the acting unit left out), the unit stays
\* exactly when no cell is in range, attacks from where it stands exactly
\* when an opponent in the mapping is next to it, steps only onto a cell
\* that holds no unit at that moment and that starts a shortest path, past
\* the units of that moment, to the nearest cell in range, and strikes only
\* an opponent that is in the mapping at that moment.
C23_FreshMapping ==
    [][ (/\ pc = "tick"
         /\ order[idx] \in IdsOf(sim.players)
         /\ Last(log').action # None) =>
          LET p == Where(sim.players, order[idx])
              me == sim.players[p]
              occupied == DOMAIN sim.players \ {p}
              dist == Distances(p, sim.arena, occupied)
              cells == InRange(dist, sim.players, me)
              a == Unwrap(Last(log').action)
          IN  /\ (a.type = "Stay") <=> (cells = {})
              /\ (a.type = "Attack") <=> (FoesAt(sim.players, me, p) # {})
              /\ a.coord # None =>
                    /\ Unwrap(a.coord) \notin DOMAIN sim.players
                    /\ cells # {}
                    /\ Unwrap(a.coord) \in
                          FirstSteps(p, Nearest(dist, cells), sim.arena,
                                     occupied)
              /\ a.target # None =>
                    /\ Unwrap(a.target) \in occupied
                    /\ sim.players[Unwrap(a.target)].kind # me.kind
                    /\ sim.players[Unwrap(a.target)].health >= 1
      ]_vars

\* C23 witness: the last turn was a step onto a cell that another unit left
\* earlier in the same round.
C23_Witness ==
    /\ Len(log) >= 2
    /\ Last(log).action # None
    /\ Unwrap(Last(log).action).coord # None
    /\ \E i \in 1..Len(log) - 1 :
          /\ log[i].action # None
          /\ Unwrap(log[i].action).coord # None
          /\ log[i].from = Some(Unwrap(Unwrap(Last(log).action).coord))

\* C24: between any two turns every unit stands on a Space cell and no two
\* units have the same id (a coordinate holds at most one unit, the mapping
\* being keyed by coordinate).  A step of a unit lands on a Space cell that
\* holds no unit at that moment.  A unit leaves the mapping only in the turn
\* of an opponent that strikes it when its health is at most that opponent's
\* power, so each turn lowers the number of units by the number of units it
\* killed, and by nothing else.
C24_NoOverlap ==
    /\ [](/\ \A c \in DOMAIN sim.players : c \in SpaceCells(sim.arena)
          /\ Cardinality(IdsOf(sim.players)) = Cardinality(DOMAIN sim.players))
    /\ [][ LET gone == {c \in DOMAIN sim.players :
                           sim.players[c].id \notin IdsOf(sim'.players)}
           IN  /\ Cardinality(DOMAIN sim'.players) =
                     Cardinality(DOMAIN sim.players) - Cardinality(gone)
               /\ gone # {} =>
                     /\ pc = "tick"
                     /\ order[idx] \in IdsOf(sim.players)
                     /\ Last(log').action # None
                     /\ Unwrap(Last(log').action).target # None
                     /\ gone = {Unwrap(Unwrap(Last(log').action).target)}
                     /\ \A c \in gone :
                           /\ sim.players[c].kind #
                                sim.players[Where(sim.players, order[idx])].kind
                           /\ sim.players[c].health <=
                                sim.players[Where(sim.players, order[idx])].power
               /\ (/\ pc = "tick"
                   /\ Last(log').action # None
                   /\ Unwrap(Last(log').action).coord # None) =>
                     /\ Unwrap(Unwrap(Last(log').action).coord)
                           \notin DOMAIN sim.players
                     /\ Unwrap(Unwrap(Last(log').action).coord)
                           \in SpaceCells(sim.arena)
         ]_vars

\* C24 witness: after a full round of blows, the last turn was a step to a
\* cell next to a unit of the same faction.
C24_Witness ==
    /\ pc = "tick"
    /\ sim.rounds >= 1
    /\ Len(log) >= 1
    /\ \E c \in DOMAIN sim.players : sim.players[c].health < StartHealth
    /\ Last(log).action # None
    /\ Unwrap(Last(log).action).coord # None
    /\ LET q == Unwrap(Unwrap(Last(log).action).coord)
       IN  /\ q \in DOMAIN sim.players
           /\ \E c \in DOMAIN sim.players :
                 /\ Adjacent(c, q)
                 /\ sim.players[c].kind = sim.players[q].kind

\* C25: on a grid whose boundary is Wall no turn is fatal.  At every turn of
\* a unit that is in the mapping and finds both factions, the unit's own
\* cell, every cell it can reach past the other units and every opponent's
\* cell lie off the boundary, so no call of get_adjacent is fatal; a blow
\* falls on a cell that holds, as it is struck, a unit of the other faction
\* with health of at least 1; the id of the turn is that of a unit in the
\* mapping; and the program never panics.
C25_NoFatalBranch ==
    /\ [](pc # "panicked")
    /\ [][ (pc = "tick" /\ Last(log').alive /\ Last(log').factions = 2) =>
             /\ order[idx] \in IdsOf(sim.players)
             /\ LET p == Where(sim.players, order[idx])
                    me == sim.players[p]
                    dist == Distances(p, sim.arena, DOMAIN sim.players \ {p})
                    a == Unwrap(Last(log').action)
                IN  /\ \A c \in DOMAIN dist \cup
                                  {d \in DOMAIN sim.players :
                                      sim.players[d].kind # me.kind} :
                          ~OnBoundary(sim.arena, c)
                    /\ a.type \in {"Attack", "MoveAndAttack"} =>
                          /\ Unwrap(a.target) \in DOMAIN sim.players \ {p}
                          /\ sim.players[Unwrap(a.target)].kind # me.kind
                          /\ sim.players[Unwrap(a.target)].health >= 1
                          /\ \/ Unwrap(a.target) \notin DOMAIN sim'.players
                             \/ sim'.players[Unwrap(a.target)].health <
                                   sim.players[Unwrap(a.target)].health
         ]_vars

\* C25 witness: the last turn was a blow by a unit that had reached a cell
\* next to the boundary, the unit struck standing next to the boundary too.
C25_Witness ==
    /\ pc = "tick"
    /\ Len(log) >= 1
    /\ Last(log).action # None
    /\ Unwrap(Last(log).action).type = "MoveAndAttack"
    /\ Unwrap(Unwrap(Last(log).action).coord).y = 1
    /\ Unwrap(Unwrap(Last(log).action).target).x = Len(sim.arena[1]) - 2
    /\ Unwrap(Unwrap(Last(log).action).target) \in DOMAIN sim.players

\* C26 as claimed: run terminates from every walled grid that holds both
\* factions.  A tick decides from the mapping and the arena alone, so a tick
\* that ends with both factions present after every unit stayed where it was
\* is followed by ticks that are the same, without end, and run never
\* returns.  The claim therefore requires that no tick is one in which both
\* factions are present and every unit stays.
C26_RunTerminates ==
    ~(/\ pc = "idle"
      /\ Cardinality(Kinds(sim.players)) > 1
      /\ Len(log) >= 1
      /\ Len(log) = Len(order)
      /\ \A i \in 1..Len(log) :
            /\ log[i].action # None
            /\ Unwrap(log[i].action).type = "Stay")

\* Some unit of the mapping has a cell in attack range that it can reach.
CanEngage(players, grid) ==
    \E p \in DOMAIN players :
        InRange(Distances(p, grid, DOMAIN players \ {p}), players, players[p])
            # {}

\* Both factions are present and no unit can reach a cell in attack range.
WalledApart ==
    /\ Cardinality(Kinds(sim.players)) > 1
    /\ ~CanEngage(sim.players, sim.arena)

\* C26, amended: run returns only when at most one faction is present, and
\* then with a score.  While both factions are present, the turn of a unit
\* that can reach a cell in attack range changes the mapping (it steps or
\* strikes); when no unit can reach a cell in attack range, no step changes
\* the mapping and run does not return, so that from such a state, the
\* mapping deciding alone what a tick does, run never returns.  And run
\* does terminate in every other case: from every walled grid, run going on
\* for as long as it can, either run returns or a state is reached in which
\* both factions are present and no unit can reach a cell in attack range.
C26_ReturnsOnlyWhenDecided ==
    /\ [](pc = "returned" =>
            /\ Cardinality(Kinds(sim.players)) <= 1
            /\ result # None)
    /\ [][ /\ WalledApart =>
                 /\ sim'.players = sim.players
                 /\ pc' # "returned"
                 /\ result' = None
           /\ (/\ pc = "tick"
               /\ Cardinality(Kinds(sim.players)) > 1
               /\ order[idx] \in IdsOf(sim.players)
               /\ LET p == Where(sim.players, order[idx])
                  IN  InRange(Distances(p, sim.arena, DOMAIN sim.players \ {p}),
                              sim.players, sim.players[p]) # {}) =>
                 sim'.players # sim.players
         ]_vars
    /\ <>(pc = "returned" \/ WalledApart)

\* C26 witness: run has returned a score after a fight that took several
\* rounds on a grid that held both factions and on which a unit lost its
\* life: the units could reach each other until one faction was left.
C26_Witness ==
    /\ pc = "returned"
    /\ result # None
    /\ Unwrap(result) > 0
    /\ sim.rounds >= 2
    /\ Cardinality(Kinds(sim.players)) = 1
    /\ \E c \in DOMAIN sim.players : sim.players[c].health < StartHealth

\* C27: no step changes the arena, and every unit of the mapping after a
\* step was in it before with the same id, faction and attack power.  The
\* mapping changes only in the turn of a unit that is in it.  Such a turn
\* leaves the acting unit itself unchanged, on its cell or on a Space cell
\* one orthogonal step away; it changes at most one other unit, an opponent,
\* which loses health or leaves the mapping; every other unit keeps its
\* coordinate and its health.
C27_TurnFrame ==
    [][ /\ sim'.arena = sim.arena
        /\ \A d \in DOMAIN sim'.players :
              \E c \in DOMAIN sim.players :
                 /\ sim.players[c].id = sim'.players[d].id
                 /\ sim.players[c].kind = sim'.players[d].kind
                 /\ sim.players[c].power = sim'.players[d].power
        /\ IF pc = "tick" /\ order[idx] \in IdsOf(sim.players)
           THEN LET p == Where(sim.players, order[idx])
                    me == sim.players[p]
                    others == DOMAIN sim.players \ {p}
                    changed == {c \in others :
                                   \/ c \notin DOMAIN sim'.players
                                   \/ sim'.players[c] # sim.players[c]}
                IN  /\ order[idx] \in IdsOf(sim'.players)
                    /\ LET q == Where(sim'.players, order[idx])
                       IN  /\ sim'.players[q] = me
                           /\ \/ q = p
                              \/ /\ Adjacent(p, q)
                                 /\ q \in SpaceCells(sim.arena)
                                 /\ p \notin DOMAIN sim'.players
                           /\ DOMAIN sim'.players \subseteq others \cup {q}
                    /\ Cardinality(changed) <= 1
                    /\ \A c \in changed :
                          /\ sim.players[c].kind # me.kind
                          /\ \/ c \notin DOMAIN sim'.players
                             \/ sim'.players[c] =
                                  [sim.players[c] EXCEPT
                                      !.health = sim'.players[c].health]
                          /\ c \in DOMAIN sim'.players =>
                                sim'.players[c].health < sim.players[c].health
           ELSE sim'.players = sim.players
      ]_vars

\* C27 witness: the last turn was a step followed by a blow that left its
\* target alive, while a third unit stands by.
C27_Witness ==
    /\ pc = "tick"
    /\ Len(log) >= 1
    /\ Last(log).action # None
    /\ Unwrap(Last(log).action).type = "MoveAndAttack"
    /\ Unwrap(Unwrap(Last(log).action).target) \in DOMAIN sim.players
    /\ sim.players[Unwrap(Unwrap(Last(log).action).target)].health < StartHealth
    /\ Cardinality(DOMAIN sim.players) = 3

\* C28 as claimed, for the parse: from_str returns for a text with any
\* number of units, more than 255 included, and the ids of the units it
\* returns are 0, 1, 2, ... in the reading order of their positions, so no
\* two units have the same id.
C28_IdsDistinct ==
    /\ pc # "panicked"
    /\ (pc = "parse" /\ call.ret # None) =>
          /\ Unwrap(call.ret) # None
          /\ LET players == Unwrap(Unwrap(call.ret)).players
             IN  /\ Cardinality(DOMAIN players) = call.units
                 /\ \A c \in DOMAIN players :
                       players[c].id =
                          Cardinality({d \in DOMAIN players : Before(d, c)})
                 /\ \A c, d \in DOMAIN players :
                       c # d => players[c].id # players[d].id

RECURSIVE PairwiseTick(_, _, _, _, _)
\* One tick in which carts leave only in colliding pairs: waiting maps the
\* carts that have not moved yet, moved those that have; the cart that stood
\* at keys[i] moves, unless an earlier cart ran into it; when it moves onto
\* a cell that holds a cart, waiting or moved, the two are removed.
PairwiseTick(waiting, moved, keys, i, track) ==
    IF i > Len(keys) THEN moved
    ELSE IF keys[i] \notin DOMAIN waiting
    THEN PairwiseTick(waiting, moved, keys, i + 1, track)
    ELSE LET cart == waiting[keys[i]]
             rest == MapRemove(waiting, keys[i])
             to == update_from_cart_direction(keys[i], cart.direction)
         IN  IF to \in DOMAIN rest
             THEN PairwiseTick(MapRemove(rest, to), moved, keys, i + 1, track)
             ELSE IF to \in DOMAIN moved
             THEN PairwiseTick(rest, MapRemove(moved, to), keys, i + 1, track)
             ELSE PairwiseTick(rest,
                      MapInsert(moved, to,
                          update_from_track(cart,
                              track[to.y + 1][to.x + 1]).cart),
                      keys, i + 1, track)

\* C29 as claimed: a call of next that moves carts and returns Collision or
\* Step leaves the carts that a tick leaves in which every cart moves once,
\* in reading order, and carts are removed only in colliding pairs, a cart
\* that enters a cell where two carts crashed earlier in the tick staying
\* on the track; so the number of carts changes by an even number.
C29_CollidingPairs ==
    [][ (/\ pc = "carts"
         /\ Cardinality(DOMAIN sim.carts) > 1
         /\ ~sim.error_found
         /\ pc' = "carts"
         /\ ~sim'.error_found) =>
          /\ sim'.carts = PairwiseTick(sim.carts, EmptyMap,
                                       SortCoords(DOMAIN sim.carts), 1,
                                       sim.track)
          /\ (Cardinality(DOMAIN sim.carts)
                - Cardinality(DOMAIN sim'.carts)) % 2 = 0
      ]_vars

\* The steps that must be finished before a step can begin.
Prerequisites(graph, n) ==
    IF n \in DOMAIN graph.incoming_list THEN graph.incoming_list[n] ELSE {}

\* The greatest of a set of numbers, 0 for the empty set.
Greatest(S) == IF S = {} THEN 0 ELSE CHOOSE m \in S : \A k \in S : k <= m

\* C30: every job started begins when each prerequisite of its step has a
\* job that has ended by then; no step has two jobs; a pass of the loop
\* starts, of the steps that are ready and not started (all prerequisites
\* ended), the first in alphabetical order, as many as workers are idle,
\* the earlier step on the idle worker of lower index; and when
\* run_simulation returns, every step of the graph has had its job and the
\* value returned is the greatest end time of a job.
C30_WorkersFollowTheGraph ==
    /\ [](pc \in {"pool", "returned"} =>
            /\ \A i \in 1..Len(log) :
                  \A p \in Prerequisites(call.graph, log[i].node) :
                     \E j \in 1..Len(log) :
                        log[j].node = p /\ log[j].until <= log[i].at
            /\ \A i, j \in 1..Len(log) :
                  log[i].node = log[j].node => i = j
            /\ pc = "returned" =>
                  /\ {log[i].node : i \in 1..Len(log)} = call.graph.nodes
                  /\ result =
                        Some(Greatest({log[i].until : i \in 1..Len(log)})))
    /\ [][ pc = "pool" =>
             LET t == sim.time
                 ended == {log[i].node : i \in {j \in 1..Len(log) :
                                                   log[j].until <= t}}
                 begun == {log[i].node : i \in 1..Len(log)}
                 ready == {n \in call.graph.nodes \ begun :
                              Prerequisites(call.graph, n) \subseteq ended}
                 idle == {w \in 1..Len(sim.workers) :
                             \A i \in 1..Len(log) :
                                log[i].worker = w => log[i].until <= t}
                 new == {log'[i] : i \in Len(log) + 1..Len(log')}
             IN  /\ Len(log') >= Len(log)
                 /\ \A i \in 1..Len(log) : log'[i] = log[i]
                 /\ Cardinality(new) = Len(log') - Len(log)
                 /\ Cardinality(new) =
                       IF Cardinality(ready) < Cardinality(idle)
                       THEN Cardinality(ready) ELSE Cardinality(idle)
                 /\ \A e \in new :
                       /\ e.at = t
                       /\ e.until > t
                       /\ e.node \in ready
                       /\ e.worker \in idle
                       /\ \A n \in ready \ {f.node : f \in new} :
                             AsciiValue(e.node) < AsciiValue(n)
                       /\ \A w \in idle \ {f.worker : f \in new} :
                             e.worker < w
                 /\ \A e, f \in new :
                       AsciiValue(e.node) < AsciiValue(f.node)
                          <=> e.worker < f.worker
         ]_vars

\* C30 witness: run_simulation has returned 15 for the graph of the test,
\* after two steps were started in the same second and another step, its
\* prerequisites ended, had to wait for a worker.
C30_Witness ==
    /\ pc = "returned"
    /\ result = Some(15)
    /\ Cardinality(call.graph.nodes) = 6
    /\ \E i, j \in 1..Len(log) : i # j /\ log[i].at = log[j].at
    /\ \E i \in 1..Len(log) :
          /\ Prerequisites(call.graph, log[i].node) # {}
          /\ \A j \in 1..Len(log) :
                log[j].node \in Prerequisites(call.graph, log[i].node)
                   => log[j].until < log[i].at
=============================================================================
